---- MODULE Spec2Model ----
(***************************************************************************)
(* A model of the PhET-iO instrumentation layer of the tandem repository:  *)
(*   - the Tandem instance registry (js/Tandem.js): static entries queued  *)
(*     until Tandem.launch(), instance listeners, add/remove notifications *)
(*   - PhetioObject (unnamed/part_008): initializePhetioObject, dispose,   *)
(*     and the phetioStartEvent / phetioEndEvent message stack             *)
(*   - Group (unnamed/part_006) and PhetioGroupIO (js/PhetioGroupIO.js):   *)
(*     indexed creation and disposal of dynamic group members              *)
(*                                                                         *)
(* JavaScript is single threaded: every action below is one call of the    *)
(* public API, run to completion.  Listener callbacks are external code;   *)
(* they are assumed to return normally.  What a callback may do from       *)
(* inside a notification loop (register a further listener) is an input of *)
(* the action; what it may do between two entries of the launch drain is   *)
(* modelled by the other actions being enabled while launch is draining.   *)
(***************************************************************************)
EXTENDS Integers, Sequences, FiniteSets, TLC

\* ------------------------------------------------------------------ bounds
\* PhetioObjects of the registry specification
NumObjects == 3
\* registrations of instance listeners
MaxListeners == 2
\* initializePhetioObject and dispose calls made on one PhetioObject
MaxCalls == 3
\* phetioStartEvent and phetioEndEvent calls made in all
MaxEventCalls == 5
\* group member indices named by callers: 0 .. MaxIndex - 1; createNextMember counts up to MaxIndex
MaxIndex == 2
\* live members of the group
MaxMembers == 3
\* addLinkedElement calls made on one PhetioObject
MaxLinks == 2
\* calls made on one Group
MaxGroupCalls == 4
\* characters of a phetioID handed to PhetioIDUtils
MaxLen == 3
\* calls of the parametric IO type factories
MaxTypeCalls == 3
\* values of the parameter type of NullableIO and ArrayIO
NumValues == 3

Objects == 1..NumObjects
\* the instance handed to Tandem.removeInstance directly, never through a PhetioObject
RawInstance == NumObjects + 1

VARIABLES
  assertEnabled,            \* the global `assert`: set in validating builds, null in production builds
  phetioBrand,              \* phet.chipper.brand === 'phet-io' (Tandem.PHET_IO_ENABLED, window.phet.phetio)
  launched,                 \* Tandem.js: var launched
  launchPC,                 \* position of Tandem.launch(): "idle", "draining", "returned"
  staticInstances,          \* Tandem.js: var staticInstances (queue of {tandem, instance})
  instanceListeners,        \* Tandem.js: var instanceListeners
  received,                 \* per listener: the notifications it was called with, in order
  staticOrder,              \* history: the instances added on a static tandem before launch, in call order
  listenersAtLaunch,        \* history: instanceListeners.length when launch() began
  tandem,                   \* PhetioObject.tandem (NoTandem for null)
  phetioObjectInitialized,  \* PhetioObject.phetioObjectInitialized
  isDisposed,               \* PhetioObject.isDisposed
  phetioWrapper,            \* PhetioObject.phetioWrapper: "null", "live", "disposed"
  phetioHighFrequency,      \* PhetioObject.phetioHighFrequency (FALSE for null)
  phetioMessageStack,       \* PhetioObject.phetioMessageStack
  stackChecks,              \* the PhetioObjects whose dispose() left a setTimeout check pending
  linkedElements,           \* PhetioObject.linkedElements: how many LinkedElements the list holds
  linkDisposals,            \* history, per PhetioObject: the dispose() calls made on its LinkedElements
  calls,                    \* per PhetioObject: the initializePhetioObject and dispose calls made on it
  phetioEmitHighFrequencyEvents,  \* window.phet.phetio.queryParameters.phetioEmitHighFrequencyEvents
  dataStream,               \* the external sink: the next id it assigns and the calls it received
  lastData,                 \* the data argument of the last phetioStartEvent and how many times the call invoked it
  openFrames,               \* history, per PhetioObject: what each phetioStartEvent not yet ended got from the sink
  eventCalls,               \* the phetioStartEvent and phetioEndEvent calls made so far
  prefix,                   \* Group.prefix
  groupArray,               \* Group.array
  groupElementIndex,        \* Group.groupElementIndex
  groupEmitted,             \* the listener calls and member disposals made during the last call of the group
  groupCall,                \* the name, the index and the arguments of the last call of the group
  groupCalls,               \* the number of calls of the group made so far
  memberPrototype,          \* the member created for the API harvest, NoMember outside validation mode
  typeCache,                \* the caches of PhetioGroupIO and FunctionIO: the entries [factory, key, type]
  typesCreated,             \* the number of IO type objects created by the factories so far
  typeLog,                  \* history: the factory calls made so far, with what each returned
  groupTandem,              \* a GroupTandem: its id, its groupElementIndex and, as history, the ids of the tandems it returned
  ioCall,                   \* a parameter IO type and the last round trip made through NullableIO or ArrayIO of it
  ioType,                   \* an IO type: its method, whether its definition was accepted, the objects made with it and the calls of its method
  idCall,                   \* the last call of a PhetioIDUtils function: its arguments and what it returned
  groupRetired,             \* history: the names of the members disposed one by one since the last clear()
  last                      \* the call made last and the error it threw ("" when it returned)

buildVars == <<assertEnabled, phetioBrand>>
registryVars == <<launched, launchPC, staticInstances, instanceListeners, received,
                  staticOrder, listenersAtLaunch>>
objectVars == <<tandem, phetioObjectInitialized, isDisposed, phetioWrapper, phetioHighFrequency,
                stackChecks, linkedElements, linkDisposals, calls>>
eventVars == <<phetioMessageStack, phetioEmitHighFrequencyEvents, dataStream, openFrames, eventCalls,
               lastData>>
utilVars == <<idCall, typeCache, typesCreated, typeLog, groupTandem, ioCall, ioType>>
groupVars == <<prefix, groupArray, groupElementIndex, groupEmitted, groupCall, groupCalls,
               memberPrototype, groupRetired>>

vars == <<buildVars, registryVars, objectVars, eventVars, groupVars, utilVars, last>>

Range(s) == {s[i] : i \in 1..Len(s)}

\* ------------------------------------------------------------------ Tandem

NoTandem == [static |-> FALSE, enabled |-> FALSE, tandemRequiredButNotSupplied |-> FALSE,
             supplied |-> FALSE, isNull |-> TRUE]

\* new Tandem( id, options ): the options of the constructor
Tandem(static, enabled, required, supplied) ==
  [static |-> static, enabled |-> enabled, tandemRequiredButNotSupplied |-> required,
   supplied |-> supplied, isNull |-> FALSE]

\* Tandem.createStaticTandem( name )
StaticTandem == Tandem(TRUE, TRUE, FALSE, TRUE)
\* rootTandem.createTandem( name ): static and enabled are inherited from the root
DynamicTandem == Tandem(FALSE, TRUE, FALSE, TRUE)
\* createTandem( name, { enabled: false } )
DisabledTandem == Tandem(FALSE, FALSE, FALSE, TRUE)
\* Tandem.tandemRequired()
RequiredTandem == Tandem(FALSE, TRUE, TRUE, FALSE)
\* Tandem.optional, the default of options.tandem: not supplied, registers nothing
OptionalTandem == Tandem(FALSE, FALSE, FALSE, FALSE)

\* the record kept in `last`
Call(op, err, instance, t) == [op |-> op, err |-> err, instance |-> instance, tandem |-> t]

Note(op, instance) == [op |-> op, instance |-> instance]

\* a notification loop that stops one listener short (`i < instanceListeners.length - 1`)
NotifyAllButLast(op, instance, k) ==
  LET n == Len(instanceListeners)
      grown == [i \in 1..(n + k) |-> i]
  IN  [instanceListeners |-> grown,
       received |-> [i \in 1..(n + k) |->
                       IF i < n THEN Append(received[i], Note(op, instance))
                       ELSE IF i = n THEN received[i]
                       ELSE <<Note(op, instance)>>]]

\* The loop `for ( i = 0; i < instanceListeners.length; i++ ) instanceListeners[ i ].<op>( id, instance )`.
\* `k` listeners are registered by callbacks while the loop runs: the loop reads
\* instanceListeners.length on every iteration, so it reaches them too.
NotifyListeners(op, instance, k) ==
  LET n == Len(instanceListeners)
      grown == [i \in 1..(n + k) |-> i]
  IN  [instanceListeners |-> grown,
       received |-> [i \in 1..(n + k) |->
                       IF i <= n THEN Append(received[i], Note(op, instance))
                       ELSE <<Note(op, instance)>>]]

Unchanged(err) ==
  [err |-> err, staticInstances |-> staticInstances,
   instanceListeners |-> instanceListeners, received |-> received]

\* an addInstance that queues every static entry, launched or not
addInstanceQueuesAlways(t, instance, typed, k) ==
  IF phetioBrand /\ t.enabled THEN
    IF assertEnabled /\ t.tandemRequiredButNotSupplied
      THEN Unchanged("Tandem was required but not supplied")
    ELSE IF assertEnabled /\ ~typed
      THEN Unchanged("type must be specified and have a typeName")
    ELSE IF t.static
      THEN [err |-> "",
            staticInstances |-> Append(staticInstances, [tandem |-> t, instance |-> instance]),
            instanceListeners |-> instanceListeners, received |-> received]
    ELSE LET n == NotifyListeners("addInstance", instance, k)
         IN  [err |-> "", staticInstances |-> staticInstances,
              instanceListeners |-> n.instanceListeners, received |-> n.received]
  ELSE Unchanged("")

\* Tandem.addInstance( instance, type ) on tandem t; typed: type && type.typeName
addInstance(t, instance, typed, k) ==
  IF phetioBrand /\ t.enabled THEN
    IF assertEnabled /\ t.tandemRequiredButNotSupplied
      THEN Unchanged("Tandem was required but not supplied")
    ELSE IF assertEnabled /\ ~typed
      THEN Unchanged("type must be specified and have a typeName")
    ELSE IF t.static /\ ~launched
      THEN [err |-> "",
            staticInstances |-> Append(staticInstances, [tandem |-> t, instance |-> instance]),
            instanceListeners |-> instanceListeners, received |-> received]
    ELSE LET n == NotifyListeners("addInstance", instance, k)
         IN  [err |-> "", staticInstances |-> staticInstances,
              instanceListeners |-> n.instanceListeners, received |-> n.received]
  ELSE Unchanged("")

\* a removeInstance that does not look at this.enabled
removeInstanceIgnoringEnabled(t, instance, k) ==
  IF phetioBrand
    THEN LET n == NotifyListeners("removeInstance", instance, k)
         IN  [err |-> "", staticInstances |-> staticInstances,
              instanceListeners |-> n.instanceListeners, received |-> n.received]
    ELSE Unchanged("")

\* Tandem.removeInstance( instance ) on tandem t
removeInstance(t, instance, k) ==
  IF phetioBrand /\ t.enabled
    THEN LET n == NotifyListeners("removeInstance", instance, k)
         IN  [err |-> "", staticInstances |-> staticInstances,
              instanceListeners |-> n.instanceListeners, received |-> n.received]
    ELSE Unchanged("")

\* how many listeners callbacks may register during one notification loop
Reentrant == IF Len(instanceListeners) > 0 /\ Len(instanceListeners) < MaxListeners
               THEN {0, 1} ELSE {0}

\* Tandem.addInstanceListener( instanceListener )
AddInstanceListener ==
  /\ Len(instanceListeners) < MaxListeners
  /\ instanceListeners' = Append(instanceListeners, Len(instanceListeners) + 1)
  /\ received' = Append(received, <<>>)
  /\ last' = Call("addInstanceListener", "", 0, NoTandem)
  /\ UNCHANGED <<launched, launchPC, staticInstances, staticOrder, listenersAtLaunch,
                 objectVars, eventVars, groupVars, buildVars, utilVars>>

\* a launch() without its assertion
launchBeginsAlways == TRUE

\* Tandem.launch(): the assertion, launched = true, and entry into the drain loop
launchBegins == ~(assertEnabled /\ launched)

Launch ==
  /\ IF launchBegins
       THEN /\ launched' = TRUE
            /\ launchPC' = IF staticInstances = <<>> /\ launchPC # "draining"
                             THEN "returned" ELSE IF launchPC = "idle" THEN "draining" ELSE launchPC
            /\ listenersAtLaunch' = IF launched THEN listenersAtLaunch ELSE Len(instanceListeners)
            /\ last' = Call("launch", "", 0, NoTandem)
       ELSE /\ UNCHANGED <<launched, launchPC, listenersAtLaunch>>
            /\ last' = Call("launch", "Tandem was launched twice", 0, NoTandem)
  /\ UNCHANGED <<staticInstances, instanceListeners, received, staticOrder,
                 objectVars, eventVars, groupVars, buildVars, utilVars>>

\* a drain that takes the entry queued last (pop instead of shift)
drainedLast(k) ==
  LET tail == staticInstances[Len(staticInstances)]
      r == addInstance(tail.tandem, tail.instance, TRUE, k)
  IN  [r EXCEPT !.staticInstances = SubSeq(staticInstances, 1, Len(staticInstances) - 1)]

\* one iteration of `while ( staticInstances.length > 0 )` in Tandem.launch()
drained(k) ==
  LET head == Head(staticInstances)
      r == addInstance(head.tandem, head.instance, TRUE, k)
  IN  [r EXCEPT !.staticInstances = Tail(staticInstances)]

LaunchDrain ==
  /\ launchPC = "draining"
  /\ staticInstances # <<>>
  /\ \E k \in Reentrant :
       LET r == drained(k) IN
         /\ staticInstances' = r.staticInstances
         /\ instanceListeners' = r.instanceListeners
         /\ received' = r.received
         /\ launchPC' = IF r.staticInstances = <<>> THEN "returned" ELSE "draining"
  /\ last' = Call("launch.drain", "", 0, NoTandem)
  /\ UNCHANGED <<launched, staticOrder, listenersAtLaunch, objectVars, eventVars, groupVars, buildVars, utilVars>>

\* client code calls t.removeInstance( instance ) for an instance that was never added
RemoveInstanceCall(r, t) ==
  /\ \A i \in 1..Len(received) : Note("removeInstance", r) \notin Range(received[i])
  /\ \E k \in Reentrant :
       LET res == removeInstance(t, r, k) IN
         /\ instanceListeners' = res.instanceListeners
         /\ received' = res.received
         /\ last' = Call("removeInstance", res.err, r, t)
  /\ UNCHANGED <<launched, launchPC, staticInstances, staticOrder, listenersAtLaunch,
                 objectVars, eventVars, groupVars, buildVars, utilVars>>

\* the operations that make a tandem from another one
Derivations == {"createTandem", "parentTandem", "createGroupTandem", "createNextTandem",
                "createSupertypeTandem"}

\* The tandem that `derivation` makes from t, and whether it is a SupertypeTandem.
\* createTandem( id ) passes { static: this.static, enabled: this.enabled } on, parentTandem
\* passes the three options on; new GroupTandem( id ), the new Tandem( id ) of
\* createNextTandem and new SupertypeTandem( id ) give the constructor no options, which
\* then takes its defaults: static false, enabled true.
derive(t, derivation) ==
  [supertype |-> derivation = "createSupertypeTandem",
   tandem |-> CASE derivation = "createTandem" -> Tandem(t.static, t.enabled, FALSE, t.supplied)
                [] derivation = "parentTandem" ->
                     Tandem(t.static, t.enabled, t.tandemRequiredButNotSupplied, t.supplied)
                [] OTHER -> Tandem(FALSE, TRUE, FALSE, t.supplied)]

\* a SupertypeTandem that inherits addInstance from Tandem
derivedAddInstanceInherited(d, instance, k) == addInstance(d.tandem, instance, TRUE, k)

\* d.addInstance( instance, type ): SupertypeTandem overrides it with a no-op
derivedAddInstance(d, instance, k) ==
  IF d.supertype THEN Unchanged("") ELSE addInstance(d.tandem, instance, TRUE, k)

\* d.removeInstance( instance ): SupertypeTandem overrides it with a no-op
derivedRemoveInstance(d, instance, k) ==
  IF d.supertype THEN Unchanged("") ELSE removeInstance(d.tandem, instance, k)

\* client code derives a tandem from t and registers the instance o with it; `last`
\* keeps the derivation and the tandem it started from
DerivedAddInstance(t, derivation, o) ==
  /\ calls[o] = 0
  /\ calls' = [calls EXCEPT ![o] = 1]
  /\ \E k \in Reentrant :
       LET r == derivedAddInstance(derive(t, derivation), o, k) IN
         /\ staticInstances' = r.staticInstances
         /\ instanceListeners' = r.instanceListeners
         /\ received' = r.received
         /\ last' = Call(derivation, r.err, o, t)
  /\ UNCHANGED <<launched, launchPC, staticOrder, listenersAtLaunch, tandem,
                 phetioObjectInitialized, isDisposed, phetioWrapper, phetioHighFrequency,
                 stackChecks, linkedElements, linkDisposals,
                 eventVars, groupVars, buildVars, utilVars>>

\* client code deregisters the instance o from the tandem it registered it with
DerivedRemoveInstance(t, derivation, o) ==
  /\ calls[o] = 1
  /\ calls' = [calls EXCEPT ![o] = 2]
  /\ \E k \in Reentrant :
       LET r == derivedRemoveInstance(derive(t, derivation), o, k) IN
         /\ instanceListeners' = r.instanceListeners
         /\ received' = r.received
         /\ last' = Call(derivation \o ".removeInstance", r.err, o, t)
  /\ UNCHANGED <<launched, launchPC, staticInstances, staticOrder, listenersAtLaunch, tandem,
                 phetioObjectInitialized, isDisposed, phetioWrapper, phetioHighFrequency,
                 stackChecks, linkedElements, linkDisposals,
                 eventVars, groupVars, buildVars, utilVars>>

\* ------------------------------------------------------------ PhetioObject

\* an isPhetioInstrumented that does not look at tandem.supplied
isPhetioInstrumentedAnyTandem(t) == ~t.isNull /\ phetioBrand

\* PhetioObject.isPhetioInstrumented(), for an object whose tandem is t
isPhetioInstrumented(t) == ~t.isNull /\ t.supplied /\ phetioBrand

\* tandem.addPhetioObject( phetioObject ): the registration call of initializePhetioObject
addPhetioObject(t, o, k) == addInstance(t, o, TRUE, k)

\* tandem.removePhetioObject( phetioObject ): the deregistration call of dispose
removePhetioObject(t, o, k) == removeInstance(t, o, k)

\* an initializePhetioObject without its assertion
initializeNeverFails == FALSE

\* `assert && assert( !this.phetioObjectInitialized, 'cannot initialize twice' )`
initializeFails == assertEnabled

\* PhetioObject.initializePhetioObject( baseOptions, options ) with options.tandem = t and
\* options.phetioHighFrequency = hf; hasKey: specifiesPhetioObjectKey( options )
InitializePhetioObject(o, t, hasKey, hf) ==
  /\ calls[o] < MaxCalls
  /\ calls' = [calls EXCEPT ![o] = @ + 1]
  /\ IF ~hasKey
       THEN /\ last' = Call("initializePhetioObject", "", o, NoTandem)
            /\ UNCHANGED <<registryVars, tandem, phetioObjectInitialized, isDisposed,
                           phetioWrapper, phetioHighFrequency>>
     ELSE IF initializeFails /\ phetioObjectInitialized[o]
       THEN /\ last' = Call("initializePhetioObject", "cannot initialize twice", o, t)
            /\ UNCHANGED <<registryVars, tandem, phetioObjectInitialized, isDisposed,
                           phetioWrapper, phetioHighFrequency>>
     ELSE \E k \in Reentrant :
            LET r == addPhetioObject(t, o, k) IN
              /\ tandem' = [tandem EXCEPT ![o] = t]
              /\ phetioHighFrequency' = [phetioHighFrequency EXCEPT ![o] = hf]
              /\ phetioWrapper' = [phetioWrapper EXCEPT ![o] =
                                     IF isPhetioInstrumented(t) THEN "live" ELSE @]
              /\ staticInstances' = r.staticInstances
              /\ instanceListeners' = r.instanceListeners
              /\ received' = r.received
              /\ staticOrder' = IF r.err = "" /\ phetioBrand /\ t.enabled /\ t.static /\ ~launched
                                  THEN Append(staticOrder, o) ELSE staticOrder
              /\ phetioObjectInitialized' =
                   [phetioObjectInitialized EXCEPT ![o] = IF r.err = "" THEN TRUE ELSE @]
              /\ last' = Call("initializePhetioObject", r.err, o, t)
              /\ UNCHANGED <<launched, launchPC, listenersAtLaunch, isDisposed>>
  /\ UNCHANGED <<stackChecks, linkedElements, linkDisposals, eventVars, groupVars, buildVars, utilVars>>

\* a dispose() without its checks
disposeNeverFails == FALSE

\* the check the constructor wraps around dispose, and the same check in dispose itself
disposeFails == assertEnabled

\* PhetioObject.dispose()
Dispose(o) ==
  /\ calls[o] < MaxCalls
  /\ calls' = [calls EXCEPT ![o] = @ + 1]
  /\ IF disposeFails /\ isDisposed[o]
       THEN /\ last' = Call("dispose",
                            "This PhetioObject has already been disposed, and cannot be disposed again",
                            o, NoTandem)
            /\ UNCHANGED <<registryVars, tandem, phetioObjectInitialized, isDisposed,
                           phetioWrapper, stackChecks, linkedElements, linkDisposals>>
       ELSE \E k \in Reentrant :
              LET r == IF phetioObjectInitialized[o]
                         THEN removePhetioObject(tandem[o], o, k) ELSE Unchanged("") IN
                /\ stackChecks' = IF assertEnabled THEN stackChecks \cup {o} ELSE stackChecks
                /\ instanceListeners' = r.instanceListeners
                /\ received' = r.received
                /\ phetioWrapper' = [phetioWrapper EXCEPT ![o] =
                       IF phetioObjectInitialized[o] /\ @ = "live" THEN "disposed" ELSE @]
                /\ linkDisposals' = [linkDisposals EXCEPT ![o] = @ + linkedElements[o]]
                /\ linkedElements' = [linkedElements EXCEPT ![o] = 0]
                /\ isDisposed' = [isDisposed EXCEPT ![o] = TRUE]
                /\ last' = Call("dispose", "", o, NoTandem)
                /\ UNCHANGED <<launched, launchPC, staticInstances, staticOrder, listenersAtLaunch,
                               tandem, phetioObjectInitialized>>
  /\ UNCHANGED <<phetioHighFrequency, eventVars, groupVars, buildVars, utilVars>>

\* a deferred check that accepts any stack
stackCheckNeverFails(o) == FALSE

\* `assert( self.phetioMessageStack.length === 0, 'phetioMessageStack should be clear' )`
stackCheckFails(o) == phetioMessageStack[o] # <<>>

\* the callback dispose() handed to setTimeout( ..., 0 )
StackCheck(o) ==
  /\ o \in stackChecks
  /\ stackChecks' = stackChecks \ {o}
  /\ last' = Call("stackCheck",
                  IF stackCheckFails(o) THEN "phetioMessageStack should be clear" ELSE "",
                  o, NoTandem)
  /\ UNCHANGED <<registryVars, tandem, phetioObjectInitialized, isDisposed, phetioWrapper,
                 phetioHighFrequency, linkedElements, linkDisposals, calls,
                 eventVars, groupVars, buildVars, utilVars>>

\* PhetioObject.addLinkedElement( element, options )
AddLinkedElement(o) ==
  /\ linkedElements[o] + linkDisposals[o] < MaxLinks
  /\ linkedElements' = [linkedElements EXCEPT ![o] = @ + 1]
  /\ last' = Call("addLinkedElement", "", o, NoTandem)
  /\ UNCHANGED <<registryVars, tandem, phetioObjectInitialized, isDisposed, phetioWrapper,
                 phetioHighFrequency, stackChecks, linkDisposals, calls,
                 eventVars, groupVars, buildVars, utilVars>>

\* ------------------------------------------------------- the event stream

\* Indicates a high frequency message was skipped.
SKIPPING_HIGH_FREQUENCY_MESSAGE == -1
\* what Array.pop() returns on an empty array: no id and not the marker
undefined == -2

\* dataStream.start( eventType, phetioObject, event, data, metadata ): the sink assigns the next id
dataStreamStart(o) ==
  [nextId |-> dataStream.nextId + 1,
   log |-> Append(dataStream.log, [op |-> "start", id |-> dataStream.nextId, object |-> o])]

\* dataStream.end( id )
dataStreamEnd(o, id) ==
  [nextId |-> dataStream.nextId,
   log |-> Append(dataStream.log, [op |-> "end", id |-> id, object |-> o])]

\* a phetioStartEvent without the high frequency branch
skipsNothing(o) == FALSE

\* the branch of phetioStartEvent that pushes the marker instead of emitting
skipsHighFrequency(o) == phetioBrand /\ ~phetioEmitHighFrequencyEvents /\ phetioHighFrequency[o]

\* the data argument and the number of times the call invoked it
Data(data, invoked) == [data |-> data, invoked |-> invoked]

\* a phetioStartEvent that gets the data before it knows whether the event is sent
invokesDataAlways(o, data) == IF data = "function" THEN 1 ELSE 0

\* `if ( typeof data === 'function' ) { data = data(); }`, in the branch that sends the
\* event: the number of times data is invoked
invokesData(o, data) ==
  IF ~skipsHighFrequency(o) /\ isPhetioInstrumented(tandem[o]) /\ data = "function" THEN 1 ELSE 0

\* PhetioObject.phetioStartEvent( event, data ), data an object or a function
phetioStartEvent(o, data) ==
  /\ eventCalls < MaxEventCalls
  /\ eventCalls' = eventCalls + 1
  /\ IF assertEnabled /\ ~phetioObjectInitialized[o]
       THEN /\ last' = Call("phetioStartEvent", "phetioObject should be initialized", o, NoTandem)
            /\ lastData' = Data(data, 0)
            /\ UNCHANGED <<phetioMessageStack, dataStream, openFrames>>
     ELSE /\ lastData' = Data(data, invokesData(o, data))
          /\ IF skipsHighFrequency(o)
               THEN /\ phetioMessageStack' = [phetioMessageStack EXCEPT
                                                ![o] = Append(@, SKIPPING_HIGH_FREQUENCY_MESSAGE)]
                    /\ openFrames' = [openFrames EXCEPT ![o] = Append(@, 0)]
                    /\ last' = Call("phetioStartEvent", "", o, NoTandem)
                    /\ UNCHANGED dataStream
             ELSE IF isPhetioInstrumented(tandem[o])
               THEN /\ phetioMessageStack' = [phetioMessageStack EXCEPT
                                                ![o] = Append(@, dataStream.nextId)]
                    /\ dataStream' = dataStreamStart(o)
                    /\ openFrames' = [openFrames EXCEPT ![o] = Append(@, dataStream.nextId)]
                    /\ last' = Call("phetioStartEvent", "", o, NoTandem)
             ELSE /\ openFrames' = [openFrames EXCEPT ![o] = Append(@, 0)]
                  /\ last' = Call("phetioStartEvent", "", o, NoTandem)
                  /\ UNCHANGED <<phetioMessageStack, dataStream>>
  /\ UNCHANGED <<phetioEmitHighFrequencyEvents, registryVars, objectVars, groupVars, buildVars, utilVars>>

\* a shift() in the place of pop(): the oldest frame is taken
popFirst(stack) ==
  IF stack = <<>> THEN [value |-> undefined, rest |-> <<>>]
  ELSE [value |-> stack[1], rest |-> Tail(stack)]

\* a pop() that takes an empty stack for a skipped frame
popOrSkip(stack) ==
  IF stack = <<>> THEN [value |-> SKIPPING_HIGH_FREQUENCY_MESSAGE, rest |-> <<>>]
  ELSE [value |-> stack[Len(stack)], rest |-> SubSeq(stack, 1, Len(stack) - 1)]

\* this.phetioMessageStack.pop(): the value popped and the array it leaves
pop(stack) ==
  IF stack = <<>> THEN [value |-> undefined, rest |-> <<>>]
  ELSE [value |-> stack[Len(stack)], rest |-> SubSeq(stack, 1, Len(stack) - 1)]

\* a phetioEndEvent that is a no-op on a disposed object
endsAtSinkUnlessDisposed(o) == isPhetioInstrumented(tandem[o]) /\ ~isDisposed[o]

\* `if ( this.isPhetioInstrumented() )` in phetioEndEvent: nothing that dispose() sets is read
endsAtSink(o) == isPhetioInstrumented(tandem[o])

\* PhetioObject.phetioEndEvent(); what the sink does with an id it never assigned is the sink's
\* business: it may throw or return
phetioEndEvent(o) ==
  /\ eventCalls < MaxEventCalls
  /\ eventCalls' = eventCalls + 1
  /\ LET topMessageIndex == pop(phetioMessageStack[o]).value IN
       /\ phetioMessageStack' = [phetioMessageStack EXCEPT ![o] = pop(@).rest]
       /\ openFrames' = [openFrames EXCEPT ![o] = SubSeq(@, 1, Len(@) - 1)]
       /\ IF topMessageIndex = SKIPPING_HIGH_FREQUENCY_MESSAGE
            THEN /\ last' = Call("phetioEndEvent", "", o, NoTandem)
                 /\ UNCHANGED dataStream
          ELSE IF endsAtSink(o)
            THEN /\ dataStream' = dataStreamEnd(o, topMessageIndex)
                 /\ \E err \in (IF topMessageIndex = undefined
                                  THEN {"", "thrown by dataStream.end"} ELSE {""}) :
                      last' = Call("phetioEndEvent", err, o, NoTandem)
          ELSE /\ last' = Call("phetioEndEvent", "", o, NoTandem)
               /\ UNCHANGED dataStream
  /\ UNCHANGED <<lastData, phetioEmitHighFrequencyEvents, registryVars, objectVars, groupVars, buildVars, utilVars>>

\* the wrapper or the query string changes ?phetioEmitHighFrequencyEvents between two calls
SetEmitHighFrequencyEvents ==
  /\ phetioBrand
  /\ phetioEmitHighFrequencyEvents' = ~phetioEmitHighFrequencyEvents
  /\ last' = Call("setEmitHighFrequencyEvents", "", 0, NoTandem)
  /\ UNCHANGED <<phetioMessageStack, dataStream, openFrames, eventCalls, lastData,
                 registryVars, objectVars, groupVars, buildVars, utilVars>>

\* ------------------------------------------------------------------- Group
\* Strings are sequences of one-character strings, so that concatenation, split and
\* parseInt are computed as JavaScript computes them.

\* phetio.PhetioIDUtils.GROUP_SEPARATOR
GROUP_SEPARATOR == "_"

DigitChars == <<"0", "1", "2", "3", "4", "5", "6", "7", "8", "9">>

\* the number parseInt returns when the text does not start with a digit
NaN == -1

\* the text of a number in `prefix + GROUP_SEPARATOR + index`
RECURSIVE toString(_)
toString(n) ==
  IF n = NaN THEN <<"N", "a", "N">>
  ELSE IF n < 10 THEN <<DigitChars[n + 1]>>
  ELSE toString(n \div 10) \o <<DigitChars[(n % 10) + 1]>>

\* String.prototype.split( separator )
RECURSIVE split(_, _)
split(s, separator) ==
  IF \A i \in 1..Len(s) : s[i] # separator THEN <<s>>
  ELSE LET i == CHOOSE j \in 1..Len(s) : s[j] = separator /\ \A m \in 1..(j - 1) : s[m] # separator
       IN  <<SubSeq(s, 1, i - 1)>> \o split(SubSeq(s, i + 1, Len(s)), separator)

\* parts[ 1 ] of a JavaScript array, as the text parseInt makes of it
second(parts) ==
  IF Len(parts) >= 2 THEN parts[2] ELSE <<"u", "n", "d", "e", "f", "i", "n", "e", "d">>

isDigit(c) == \E d \in 1..10 : DigitChars[d] = c

digitValue(c) == (CHOOSE d \in 1..10 : DigitChars[d] = c) - 1

\* the value of the longest prefix of s made of decimal digits, given the digits read so far
RECURSIVE digits(_, _)
digits(s, acc) ==
  IF s = <<>> \/ ~isDigit(Head(s)) THEN acc
  ELSE digits(Tail(s), acc * 10 + digitValue(Head(s)))

\* parseInt( text, 10 )
parseInt(s) == IF s = <<>> \/ ~isDigit(Head(s)) THEN NaN ELSE digits(s, 0)

\* parseInt( name.split( GROUP_SEPARATOR )[ 1 ], 10 )
indexOf(name) == parseInt(second(split(name, GROUP_SEPARATOR)))

\* index + 1 and index++ on a number that may be NaN
increment(n) == IF n = NaN THEN NaN ELSE n + 1

\* an assignment that keeps the old counter
maxKeepsCounter(a, b) == b

\* Math.max( a, b )
max(a, b) == IF a = NaN \/ b = NaN THEN NaN ELSE IF a >= b THEN a ELSE b

\* a component name without the separator
componentNameUnseparated(index) == prefix \o toString(index)

\* this.prefix + phetio.PhetioIDUtils.GROUP_SEPARATOR + index
componentNameOf(index) == prefix \o <<GROUP_SEPARATOR>> \o toString(index)

\* the arguments a caller hands to the create function
Args == {5, 7}

Outcomes == {"created", "createMember throws", "validate throws"}

\* what a listener of the group's emitters, or a member's dispose(), is called with, and
\* the length of the group at that moment
GroupEvent(op, name, array) == [op |-> op, name |-> name, length |-> Len(array)]

\* a createGroupMember that pushes the member before it validates it
createGroupMemberUnvalidated(index, args, outcome) ==
  IF outcome = "createMember throws"
    THEN [err |-> outcome, array |-> groupArray, emitted |-> <<>>]
    ELSE LET array == Append(groupArray, [name |-> componentNameOf(index), args |-> args])
         IN  [err |-> IF outcome = "created" THEN "" ELSE outcome, array |-> array,
              emitted |-> IF outcome = "created"
                            THEN <<GroupEvent("memberCreated", componentNameOf(index), array)>>
                            ELSE <<>>]

\* Group.createGroupMember( index, argsForCreateFunction ); outcome: what createMember and
\* validate do with the arguments
createGroupMember(index, args, outcome) ==
  IF outcome = "created"
    THEN LET array == Append(groupArray, [name |-> componentNameOf(index), args |-> args])
         IN  [err |-> "", array |-> array,
              emitted |-> <<GroupEvent("memberCreated", componentNameOf(index), array)>>]
    ELSE [err |-> outcome, array |-> groupArray, emitted |-> <<>>]

\* group.createIndexedMember( index, args ), the name PhetioGroupIO calls createGroupMember by
createIndexedMember(index, args, outcome) == createGroupMember(index, args, outcome)

GroupRoom == Len(groupArray) < MaxMembers /\ groupCalls < MaxGroupCalls

\* the record kept in groupCall
GroupCall(name, index, args) == [name |-> name, index |-> index, args |-> args]

\* Group.createNextMember( ...argsForCreateFunction )
CreateNextMember(args, outcome) ==
  /\ GroupRoom
  /\ groupElementIndex = NaN \/ groupElementIndex <= MaxIndex
  /\ LET r == createGroupMember(groupElementIndex, args, outcome) IN
       /\ groupElementIndex' = increment(groupElementIndex)
       /\ groupArray' = r.array
       /\ groupEmitted' = r.emitted
       /\ groupCall' = GroupCall(<<>>, groupElementIndex, args)
       /\ groupCalls' = groupCalls + 1
       /\ last' = Call("createNextMember", r.err, 0, NoTandem)
  /\ UNCHANGED <<prefix, memberPrototype, groupRetired, registryVars, objectVars, eventVars, buildVars, utilVars>>

\* the bump of createCorrespondingGroupMember
bumped(index) == IF groupElementIndex = index /\ index # NaN
                   THEN groupElementIndex + 1 ELSE groupElementIndex

\* Group.createCorrespondingGroupMember( phetioObject, ...argsForCreateFunction ),
\* name: phetioObject.tandem.name
CreateCorrespondingGroupMember(name, args, outcome) ==
  /\ GroupRoom
  /\ LET index == indexOf(name)
         r == createGroupMember(index, args, outcome) IN
       /\ groupElementIndex' = bumped(index)
       /\ groupArray' = r.array
       /\ groupEmitted' = r.emitted
       /\ groupCall' = GroupCall(name, index, args)
       /\ groupCalls' = groupCalls + 1
       /\ last' = Call("createCorrespondingGroupMember", r.err, 0, NoTandem)
  /\ UNCHANGED <<prefix, memberPrototype, groupRetired, registryVars, objectVars, eventVars, buildVars, utilVars>>

\* Group.createGroupMember( index, argsForCreateFunction ) called directly
CreateGroupMember(index, args, outcome) ==
  /\ GroupRoom
  /\ LET r == createGroupMember(index, args, outcome) IN
       /\ groupArray' = r.array
       /\ groupEmitted' = r.emitted
       /\ groupCall' = GroupCall(<<>>, index, args)
       /\ groupCalls' = groupCalls + 1
       /\ last' = Call("createGroupMember", r.err, 0, NoTandem)
  /\ UNCHANGED <<prefix, memberPrototype, groupElementIndex, groupRetired, registryVars, objectVars, eventVars,
                 buildVars, utilVars>>

\* an addChildInstanceFromComponentName that creates the member before it deserializes
addChildInstanceEager(componentName, args, deserializable, outcome) ==
  LET index == indexOf(componentName)
      r == createIndexedMember(index, args, outcome)
  IN  [err |-> IF deserializable THEN r.err ELSE "CouldNotYetDeserializeError",
       array |-> r.array, emitted |-> r.emitted,
       groupElementIndex |-> IF r.err = "" /\ deserializable
                               THEN max(increment(index), groupElementIndex)
                               ELSE groupElementIndex]

\* PhetioGroupIO.addChildInstanceFromComponentName( group, componentName, stateObject );
\* deserializable: parameterType.stateObjectToArgs( stateObject ) returns args instead of throwing
addChildInstance(componentName, args, deserializable, outcome) ==
  IF ~deserializable
    THEN [err |-> "CouldNotYetDeserializeError", array |-> groupArray, emitted |-> <<>>,
          groupElementIndex |-> groupElementIndex]
    ELSE LET index == indexOf(componentName)
             r == createIndexedMember(index, args, outcome)
         IN  [err |-> r.err, array |-> r.array, emitted |-> r.emitted,
              groupElementIndex |-> IF r.err = "" THEN max(increment(index), groupElementIndex)
                                    ELSE groupElementIndex]

AddChildInstanceFromComponentName(componentName, args, deserializable, outcome) ==
  /\ GroupRoom
  /\ LET r == addChildInstance(componentName, args, deserializable, outcome) IN
       /\ groupArray' = r.array
       /\ groupEmitted' = r.emitted
       /\ groupElementIndex' = r.groupElementIndex
       /\ groupCall' = GroupCall(componentName, indexOf(componentName), args)
       /\ groupCalls' = groupCalls + 1
       /\ last' = Call("addChildInstanceFromComponentName", r.err, 0, NoTandem)
  /\ UNCHANGED <<prefix, memberPrototype, groupRetired, registryVars, objectVars, eventVars, buildVars, utilVars>>

\* arrayRemove( this.array, member ) for the member at position i
arrayRemove(array, i) == SubSeq(array, 1, i - 1) \o SubSeq(array, i + 1, Len(array))

\* Group.disposeGroupMember( member ), member: array[ i ]: the member is removed, the
\* listeners of memberDisposedEmitter are called, then member.dispose()
disposeGroupMember(array, i) ==
  LET rest == arrayRemove(array, i)
  IN  [array |-> rest,
       emitted |-> <<GroupEvent("memberDisposed", array[i].name, rest),
                     GroupEvent("dispose", array[i].name, rest)>>]

DisposeGroupMember(i) ==
  /\ i \in 1..Len(groupArray)
  /\ groupCalls < MaxGroupCalls
  /\ LET r == disposeGroupMember(groupArray, i) IN
       /\ groupArray' = r.array
       /\ groupEmitted' = r.emitted
  /\ groupRetired' = groupRetired \cup {groupArray[i].name}
  /\ groupCall' = GroupCall(groupArray[i].name, NaN, 0)
  /\ groupCalls' = groupCalls + 1
  /\ last' = Call("disposeGroupMember", "", 0, NoTandem)
  /\ UNCHANGED <<prefix, memberPrototype, groupElementIndex, registryVars, objectVars, eventVars,
                 buildVars, utilVars>>

\* a clear() that disposes the members from the first to the last
RECURSIVE clearedForward(_, _)
clearedForward(array, emitted) ==
  IF array = <<>> THEN [array |-> array, emitted |-> emitted]
  ELSE LET r == disposeGroupMember(array, 1)
       IN  clearedForward(r.array, emitted \o r.emitted)

\* `while ( this.array.length > 0 ) { this.disposeGroupMember( this.array[ this.array.length - 1 ] ); }`
RECURSIVE cleared(_, _)
cleared(array, emitted) ==
  IF array = <<>> THEN [array |-> array, emitted |-> emitted]
  ELSE LET r == disposeGroupMember(array, Len(array))
       IN  cleared(r.array, emitted \o r.emitted)

\* Group.clear()
Clear ==
  /\ groupCalls < MaxGroupCalls
  /\ LET r == cleared(groupArray, <<>>) IN
       /\ groupArray' = r.array
       /\ groupEmitted' = r.emitted
  /\ groupElementIndex' = 0
  /\ groupRetired' = {}
  /\ groupCall' = GroupCall(<<>>, NaN, 0)
  /\ groupCalls' = groupCalls + 1
  /\ last' = Call("clear", "", 0, NoTandem)
  /\ UNCHANGED <<prefix, memberPrototype, registryVars, objectVars, eventVars, buildVars, utilVars>>

\* ------------------------------------------------------------- PhetioIDUtils
\* Strings are sequences of characters.

\* phetio.PhetioIDUtils.SEPARATOR
SEPARATOR == "."

\* the characters identifiers are made of here: a letter and the two separators
Chars == {"a", SEPARATOR, GROUP_SEPARATOR}

\* the strings of at most n characters
Strings(n) == UNION {[1..k -> Chars] : k \in 0..n}

\* String.prototype.indexOf( character ): the first position, counted from 0, or -1
stringIndexOf(s, c) ==
  IF \E i \in 1..Len(s) : s[i] = c
    THEN (CHOOSE i \in 1..Len(s) : s[i] = c /\ \A j \in 1..(i - 1) : s[j] # c) - 1
    ELSE -1

\* String.prototype.lastIndexOf( character )
lastIndexOf(s, c) ==
  IF \E i \in 1..Len(s) : s[i] = c
    THEN (CHOOSE i \in 1..Len(s) : s[i] = c /\ \A j \in (i + 1)..Len(s) : s[j] # c) - 1
    ELSE -1

\* String.prototype.substring( start, end ): both ends are clamped to 0 .. length and
\* swapped when start is the larger
substring(s, start, end) ==
  LET clamp(n) == IF n < 0 THEN 0 ELSE IF n > Len(s) THEN Len(s) ELSE n
      a == clamp(start)
      b == clamp(end)
  IN  IF a <= b THEN SubSeq(s, a + 1, b) ELSE SubSeq(s, b + 1, a)

IDResult(err, result) == [err |-> err, result |-> result]

\* an append that looks for the separator in its first component only
RECURSIVE appendUncheckedRest(_, _, _)
appendUncheckedRest(phetioID, componentNames, k) ==
  IF k > Len(componentNames) THEN IDResult("", phetioID)
  ELSE IF assertEnabled /\ k = 1 /\ stringIndexOf(componentNames[k], SEPARATOR) # -1
    THEN IDResult("separator appears in componentName", phetioID)
  ELSE appendUncheckedRest(phetioID \o <<SEPARATOR>> \o componentNames[k], componentNames, k + 1)

appendChecksFirst(phetioID, componentNames) == appendUncheckedRest(phetioID, componentNames, 1)

\* the forEach of PhetioIDUtils.append from the k-th component on
RECURSIVE appendFrom(_, _, _)
appendFrom(phetioID, componentNames, k) ==
  IF k > Len(componentNames) THEN IDResult("", phetioID)
  ELSE IF assertEnabled /\ stringIndexOf(componentNames[k], SEPARATOR) # -1
    THEN IDResult("separator appears in componentName", phetioID)
  ELSE appendFrom(phetioID \o <<SEPARATOR>> \o componentNames[k], componentNames, k + 1)

\* PhetioIDUtils.append( phetioID, ...componentNames )
append(phetioID, componentNames) == appendFrom(phetioID, componentNames, 1)

\* a getComponentName that cuts at the first separator
getComponentNameFirst(phetioID) ==
  IF assertEnabled /\ Len(phetioID) = 0 THEN IDResult("Assertion failed", <<>>)
  ELSE LET indexOfFirstSeparator == stringIndexOf(phetioID, SEPARATOR) IN
         IF indexOfFirstSeparator = -1 THEN IDResult("", phetioID)
         ELSE IDResult("", substring(phetioID, indexOfFirstSeparator + 1, Len(phetioID)))

\* PhetioIDUtils.getComponentName( phetioID )
getComponentName(phetioID) ==
  IF assertEnabled /\ Len(phetioID) = 0 THEN IDResult("Assertion failed", <<>>)
  ELSE LET indexOfLastSeparator == lastIndexOf(phetioID, SEPARATOR) IN
         IF indexOfLastSeparator = -1 THEN IDResult("", phetioID)
         ELSE IDResult("", substring(phetioID, indexOfLastSeparator + 1, Len(phetioID)))

\* a getParentID that cuts at the first separator
getParentIDFirst(phetioID) ==
  LET indexOfFirstSeparator == stringIndexOf(phetioID, SEPARATOR) IN
    IF assertEnabled /\ indexOfFirstSeparator = -1
      THEN IDResult("phetioID does not have a parent component", <<>>)
      ELSE IDResult("", substring(phetioID, 0, indexOfFirstSeparator))

\* PhetioIDUtils.getParentID( phetioID )
getParentID(phetioID) ==
  LET indexOfLastSeparator == lastIndexOf(phetioID, SEPARATOR) IN
    IF assertEnabled /\ indexOfLastSeparator = -1
      THEN IDResult("phetioID does not have a parent component", <<>>)
      ELSE IDResult("", substring(phetioID, 0, indexOfLastSeparator))

\* an isDynamicElement that looks at the last component only
isDynamicElementOfLast(phetioID) ==
  stringIndexOf(substring(phetioID, lastIndexOf(phetioID, SEPARATOR) + 1, Len(phetioID)),
                GROUP_SEPARATOR) >= 0

\* PhetioIDUtils.isDynamicElement( phetioID )
isDynamicElement(phetioID) == stringIndexOf(phetioID, GROUP_SEPARATOR) >= 0

\* Tandem.createTandem( id ) on a tandem with the id thisId; arguments: the list of the
\* arguments of the call, empty when id is undefined. With the assertion compiled out,
\* an undefined id is concatenated as 'undefined', and handed on as undefined to the
\* Tandem constructor, which makes it '', when thisId is empty.
createTandem(thisId, arguments) ==
  IF assertEnabled /\ (arguments = <<>> \/ Len(arguments[1]) = 0)
    THEN IDResult("id must be defined", <<>>)
  ELSE IF Len(thisId) > 0
    THEN IDResult("", thisId \o <<SEPARATOR>> \o
                      (IF arguments = <<>>
                         THEN <<"u", "n", "d", "e", "f", "i", "n", "e", "d">> ELSE arguments[1]))
  ELSE IDResult("", IF arguments = <<>> THEN <<>> ELSE arguments[1])

\* the record kept in idCall; flag is the boolean a predicate returned
IDCall(op, phetioID, componentNames, r, flag) ==
  [op |-> op, phetioID |-> phetioID, componentNames |-> componentNames,
   err |-> r.err, result |-> r.result, flag |-> flag]

NoIDCall == IDCall("", <<>>, <<>>, IDResult("", <<>>), FALSE)

IDUnchanged == UNCHANGED <<buildVars, registryVars, objectVars, eventVars, groupVars, last,
                           typeCache, typesCreated, typeLog, groupTandem, ioCall, ioType>>

AppendCall(phetioID, componentNames) ==
  /\ idCall = NoIDCall
  /\ idCall' = IDCall("append", phetioID, componentNames, append(phetioID, componentNames), FALSE)
  /\ IDUnchanged

GetComponentNameCall(phetioID) ==
  /\ idCall = NoIDCall
  /\ idCall' = IDCall("getComponentName", phetioID, <<>>, getComponentName(phetioID), FALSE)
  /\ IDUnchanged

GetParentIDCall(phetioID) ==
  /\ idCall = NoIDCall
  /\ idCall' = IDCall("getParentID", phetioID, <<>>, getParentID(phetioID), FALSE)
  /\ IDUnchanged

CreateTandemCall(thisId, arguments) ==
  /\ idCall = NoIDCall
  /\ idCall' = IDCall("createTandem", thisId, arguments, createTandem(thisId, arguments), FALSE)
  /\ IDUnchanged

IsDynamicElementCall(phetioID) ==
  /\ idCall = NoIDCall
  /\ idCall' = IDCall("isDynamicElement", phetioID, <<>>, IDResult("", <<>>),
                      isDynamicElement(phetioID))
  /\ IDUnchanged

\* ---------------------------------------------------------- initial states

InitBuild ==
  /\ assertEnabled \in BOOLEAN
  /\ phetioBrand \in BOOLEAN

InitTandem ==
  /\ launched = FALSE
  /\ launchPC = "idle"
  /\ staticInstances = <<>>
  /\ instanceListeners = <<>>
  /\ received = <<>>
  /\ staticOrder = <<>>
  /\ listenersAtLaunch = 0

\* new PhetioObject() without options, for every object
InitObjects ==
  /\ tandem = [o \in Objects |-> NoTandem]
  /\ phetioObjectInitialized = [o \in Objects |-> FALSE]
  /\ isDisposed = [o \in Objects |-> FALSE]
  /\ phetioWrapper = [o \in Objects |-> "null"]
  /\ phetioHighFrequency = [o \in Objects |-> FALSE]
  /\ phetioMessageStack = [o \in Objects |-> <<>>]
  /\ stackChecks = {}
  /\ linkedElements = [o \in Objects |-> 0]
  /\ linkDisposals = [o \in Objects |-> 0]
  /\ calls = [o \in Objects |-> 0]
  /\ openFrames = [o \in Objects |-> <<>>]
  /\ lastData = Data("object", 0)
  /\ eventCalls = 0

\* ------------------------------------------------------- IO type definition
\* One entry of phetioType.methods: a function (private, not exported over the API) or
\* a declaration, with the fields it has.
MethodFields == {"returnType", "implementation", "parameterTypes", "documentation"}

Methods == [isFunction : BOOLEAN, fields : SUBSET MethodFields]

\* the first of the four assertions of initializePhetioObject that a declaration fails
methodError(method) ==
  IF method.isFunction THEN ""
  ELSE IF "returnType" \notin method.fields THEN "needs a returnType"
  ELSE IF "implementation" \notin method.fields THEN "needs an implementation function"
  ELSE IF "parameterTypes" \notin method.fields THEN "needs a parameterTypes array"
  ELSE IF "documentation" \notin method.fields THEN "needs a documentation string"
  ELSE ""

\* a validateSubtype that does not ask for the documentation string of a method
validateSubtypeLax(method) ==
  IF phetioBrand THEN methodError([method EXCEPT !.fields = @ \cup {"documentation"}]) ELSE ""

\* ObjectIO.validateSubtype( subtype ), called when the IO type is defined: in an
\* instrumentation-enabled build every declared method must have its four fields
validateSubtype(method) ==
  IF phetioBrand THEN methodError(method) ELSE ""

NoIOType == [method |-> [isFunction |-> TRUE, fields |-> {}], status |-> "",
             objects |-> 0, invoked |-> 0]

TypeUnchanged == UNCHANGED <<buildVars, registryVars, objectVars, eventVars, groupVars,
                             idCall, typeCache, typesCreated, typeLog, groupTandem, ioCall>>

\* the definition of the IO type: create(), ending with ObjectIO.validateSubtype
DefineType ==
  /\ ioType.status = ""
  /\ ioType' = [ioType EXCEPT !.status = IF validateSubtype(ioType.method) = ""
                                           THEN "defined" ELSE "rejected"]
  /\ last' = Call("validateSubtype", validateSubtype(ioType.method), 0, NoTandem)
  /\ TypeUnchanged

\* new PhetioObject( { tandem, phetioType } ): the checks initializePhetioObject makes of
\* options.phetioType under `assert && options.phetioType && PHET_IO_ENABLED`
NewPhetioObject ==
  /\ ioType.status = "defined"
  /\ ioType.objects < MaxCalls
  /\ LET err == IF assertEnabled /\ phetioBrand THEN methodError(ioType.method) ELSE "" IN
       /\ ioType' = [ioType EXCEPT !.objects = IF err = "" THEN @ + 1 ELSE @]
       /\ last' = Call("initializePhetioObject", err, 0, NoTandem)
  /\ TypeUnchanged

\* wrapper[ methodName ].apply( wrapper, stateObjects ): a call of the method of an object
InvokeMethod ==
  /\ ioType.objects > 0
  /\ ioType.invoked < MaxCalls
  /\ ioType' = [ioType EXCEPT !.invoked = @ + 1]
  /\ last' = Call("invokeMethod", "", 0, NoTandem)
  /\ TypeUnchanged

\* ------------------------------------------------------ NullableIO and ArrayIO
\* The values of a parameter type are 1 .. NumValues, null is 0; its state objects are
\* 0 .. NumValues, the JSON null among them.
null == 0

Values == 1..NumValues

StateObjects == 0..NumValues

\* the parameter types whose fromStateObject( toStateObject( x ) ) is x for every value x:
\* toStateObject is one to one and fromStateObject takes every state object back
\* (a state object that toStateObject never returns gives undefined)
RoundTripTypes ==
  {[toStateObject |-> to,
    fromStateObject |-> [s \in StateObjects |->
                           IF \E x \in Values : to[x] = s
                             THEN CHOOSE x \in Values : to[x] = s ELSE undefined]] :
     to \in {f \in [Values -> StateObjects] : \A x, y \in Values : x # y => f[x] # f[y]}}

\* NullableIO( parameterType ).toStateObject( instance )
nullableToStateObject(parameterType, instance) ==
  IF instance = null THEN null ELSE parameterType.toStateObject[instance]

\* NullableIO( parameterType ).fromStateObject( stateObject )
nullableFromStateObject(parameterType, stateObject) ==
  IF stateObject = null THEN null ELSE parameterType.fromStateObject[stateObject]

\* ArrayIO( elementType ).toStateObject( array ): json.push for i = 0 .. length - 1
arrayToStateObject(elementType, array) ==
  [i \in 1..Len(array) |-> elementType.toStateObject[array[i]]]

\* an ArrayIO fromStateObject that fills the array from the front (unshift)
arrayFromStateObjectReversed(elementType, stateObject) ==
  [i \in 1..Len(stateObject) |->
     elementType.fromStateObject[stateObject[Len(stateObject) + 1 - i]]]

\* ArrayIO( elementType ).fromStateObject( stateObject ): array.push for i = 0 .. length - 1
arrayFromStateObject(elementType, stateObject) ==
  [i \in 1..Len(stateObject) |-> elementType.fromStateObject[stateObject[i]]]

\* the record kept in ioCall
IOCall(op, type, value, array) ==
  [op |-> op, type |-> type,
   value |-> value,
   valueBack |-> nullableFromStateObject(type, nullableToStateObject(type, value)),
   array |-> array,
   arrayState |-> arrayToStateObject(type, array),
   arrayBack |-> arrayFromStateObject(type, arrayToStateObject(type, array))]

NoIOCall == [op |-> "", type |-> CHOOSE t \in RoundTripTypes : TRUE,
             value |-> null, valueBack |-> null, array |-> <<>>, arrayState |-> <<>>,
             arrayBack |-> <<>>]

IOUnchanged == UNCHANGED <<buildVars, registryVars, objectVars, eventVars, groupVars, last,
                           idCall, typeCache, typesCreated, typeLog, groupTandem, ioType>>

\* fromStateObject( toStateObject( instance ) ) of NullableIO( ioCall.type )
NullableRoundTrip(instance) ==
  /\ ioCall.op = ""
  /\ ioCall' = IOCall("NullableIO", ioCall.type, instance, <<>>)
  /\ IOUnchanged

\* fromStateObject( toStateObject( array ) ) of ArrayIO( ioCall.type )
ArrayRoundTrip(array) ==
  /\ ioCall.op = ""
  /\ ioCall' = IOCall("ArrayIO", ioCall.type, null, array)
  /\ IOUnchanged

\* new GroupTandem( id )
GroupTandem(id) == [id |-> id, groupElementIndex |-> 0, returned |-> <<>>]

\* a createNextTandem that does not count
createNextTandemAgain(group) ==
  [group EXCEPT !.returned = Append(@, group.id \o <<"_">> \o toString(group.groupElementIndex))]

\* GroupTandem.createNextTandem: `new Tandem( this.id + '_' + ( this.groupElementIndex++ ) )`
createNextTandem(group) ==
  [group EXCEPT !.returned = Append(@, group.id \o <<"_">> \o toString(group.groupElementIndex)),
                !.groupElementIndex = @ + 1]

CreateNextTandem ==
  /\ groupTandem.groupElementIndex <= MaxIndex
  /\ groupTandem' = createNextTandem(groupTandem)
  /\ UNCHANGED <<buildVars, registryVars, objectVars, eventVars, groupVars, last, idCall,
                 typeCache, typesCreated, typeLog, ioCall, ioType>>

InitUtilities ==
  /\ idCall = NoIDCall
  /\ typeCache = {}
  /\ typesCreated = 0
  /\ typeLog = <<>>
  /\ groupTandem = GroupTandem(<<>>)
  /\ ioCall = NoIOCall
  /\ ioType = NoIOType

InitDataStream ==
  /\ phetioEmitHighFrequencyEvents = FALSE
  /\ dataStream = [nextId |-> 1, log |-> <<>>]

\* new Group( prefix, createMember, defaultArguments, options )
\* this.memberPrototype of a group that is not in validation mode
NoMember == [name |-> <<>>, args |-> 0]

\* the name of the tandem createTandem( 'prototype' ) returns
PrototypeName == <<"p", "r", "o", "t", "o", "t", "y", "p", "e">>

\* the prototype: createMember( this.tandem.createTandem( 'prototype' ), ...args )
Prototype == [name |-> PrototypeName, args |-> CHOOSE args \in Args : TRUE]

\* a constructor that creates the prototype the way members are created
constructorCountsPrototype(validation) ==
  IF validation
    THEN [array |-> <<Prototype>>, groupElementIndex |-> 1, memberPrototype |-> Prototype,
          emitted |-> <<GroupEvent("memberCreated", PrototypeName, <<Prototype>>)>>]
    ELSE [array |-> <<>>, groupElementIndex |-> 0, memberPrototype |-> NoMember,
          emitted |-> <<>>]

\* Group.constructor; validation: phetioPrintPhetioFiles || phetioAPIValidation.enabled
constructor(validation) ==
  [array |-> <<>>, groupElementIndex |-> 0,
   memberPrototype |-> IF validation THEN Prototype ELSE NoMember,
   emitted |-> <<>>]

Constructed(validation) ==
  LET group == constructor(validation) IN
    /\ groupArray = group.array
    /\ groupElementIndex = group.groupElementIndex
    /\ groupEmitted = group.emitted
    /\ memberPrototype = group.memberPrototype
    /\ groupCall = GroupCall(<<>>, NaN, 0)
    /\ groupRetired = {}
    /\ groupCalls = 0

InitGroup ==
  /\ Constructed(FALSE)

InitRegistry ==
  /\ InitBuild
  /\ InitTandem
  /\ InitObjects
  /\ InitDataStream
  /\ InitUtilities
  /\ InitGroup
  /\ prefix = <<"p">>
  /\ last = Call("", "", 0, NoTandem)

\* ------------------------------------------------- the registry specification
\* Three entries registered by well-behaved clients (each PhetioObject is initialized
\* once, with a static or a dynamic tandem), any number of launch() calls, listeners
\* registered at any time, and removeInstance called for an instance never added.

\* the objects are numbered in the order in which they are initialized
Register(o, t) ==
  /\ calls[o] = 0
  /\ \A p \in 1..(o - 1) : calls[p] > 0
  /\ InitializePhetioObject(o, t, TRUE, FALSE)

NextRegistry ==
  \/ AddInstanceListener
  \/ Launch
  \/ LaunchDrain
  \/ \E t \in {DynamicTandem, DisabledTandem} : RemoveInstanceCall(RawInstance, t)
  \/ \E o \in Objects, t \in {StaticTandem, DynamicTandem} : Register(o, t)

SpecRegistry == InitRegistry /\ [][NextRegistry]_vars

\* ------------------------------------------------ the lifecycle specification
\* Any sequence of initializePhetioObject and dispose calls on one PhetioObject,
\* with every kind of tandem, before, during and after launch().

LifecycleObject == 1

TandemKinds == {StaticTandem, DynamicTandem, DisabledTandem, RequiredTandem}

NextLifecycle ==
  \/ AddInstanceListener
  \/ Launch
  \/ LaunchDrain
  \/ \E t \in TandemKinds, hasKey \in BOOLEAN : InitializePhetioObject(LifecycleObject, t, hasKey, FALSE)
  \/ Dispose(LifecycleObject)
  \/ StackCheck(LifecycleObject)
  \/ AddLinkedElement(LifecycleObject)

SpecLifecycle == InitRegistry /\ [][NextLifecycle]_vars

\* ------------------------------------------------ the disposal specification
\* One PhetioObject, initialized at most once with a supplied or an unsupplied tandem,
\* with events started and ended in any order, disposed at any moment, events still
\* open or not; the check dispose() deferred runs on any later turn.

NextDisposal ==
  \/ AddInstanceListener
  \/ \E t \in {DynamicTandem, OptionalTandem} :
       calls[LifecycleObject] = 0 /\ InitializePhetioObject(LifecycleObject, t, TRUE, FALSE)
  \/ phetioStartEvent(LifecycleObject, "object")
  \/ phetioEndEvent(LifecycleObject)
  \/ Dispose(LifecycleObject)
  \/ StackCheck(LifecycleObject)

SpecDisposal == InitRegistry /\ [][NextDisposal]_vars

\* --------------------------------------------------- the event specification
\* Two PhetioObjects, each initialized once with a supplied or an unsupplied tandem,
\* high frequency or not; any sequence of phetioStartEvent and phetioEndEvent calls,
\* balanced or not, while ?phetioEmitHighFrequencyEvents may change between calls.

EventObjects == {1, 2}

NextEvents ==
  \/ \E o \in EventObjects, t \in {DynamicTandem, OptionalTandem}, hf \in BOOLEAN :
       calls[o] = 0 /\ InitializePhetioObject(o, t, TRUE, hf)
  \/ \E o \in EventObjects : phetioStartEvent(o, "object")
  \/ \E o \in EventObjects : phetioEndEvent(o)
  \/ SetEmitHighFrequencyEvents

SpecEvents == InitRegistry /\ [][NextEvents]_vars

\* --------------------------------------------------- the group specification
\* One Group; members are created by every creation path, with every outcome of the
\* create function, disposed one by one and cleared.

Prefixes == {<<"p">>, <<"p", "_", "q">>}

\* tandem names of the objects handed to createCorrespondingGroupMember: members of
\* another group, and an object that is no group member
PeerNames == {<<"e", "_">> \o toString(i) : i \in 0..(MaxIndex - 1)} \cup {<<"e">>}

\* component names in a state snapshot of this group
SnapshotNames == {prefix \o <<"_">> \o toString(i) : i \in 0..(MaxIndex - 1)}

\* the arguments that come with a peer, an index or a snapshot
PeerArgs == {CHOOSE args \in Args : TRUE}

InitGroupSpec ==
  /\ assertEnabled = TRUE
  /\ phetioBrand = TRUE
  /\ InitTandem
  /\ InitObjects
  /\ InitDataStream
  /\ InitUtilities
  /\ InitGroup
  /\ prefix \in Prefixes
  /\ last = Call("", "", 0, NoTandem)

NextGroup ==
  \/ \E args \in Args, outcome \in Outcomes : CreateNextMember(args, outcome)
  \/ \E name \in PeerNames, args \in PeerArgs, outcome \in Outcomes :
       CreateCorrespondingGroupMember(name, args, outcome)
  \/ \E index \in 0..(MaxIndex - 1), args \in PeerArgs, outcome \in Outcomes :
       CreateGroupMember(index, args, outcome)
  \/ \E name \in SnapshotNames, args \in PeerArgs, outcome \in Outcomes :
       AddChildInstanceFromComponentName(name, args, TRUE, outcome)
  \/ \E name \in SnapshotNames, args \in PeerArgs :
       AddChildInstanceFromComponentName(name, args, FALSE, "created")
  \/ \E i \in 1..MaxMembers : DisposeGroupMember(i)
  \/ Clear

SpecGroup == InitGroupSpec /\ [][NextGroup]_vars

\* a group constructed in validation mode
InitPrototype ==
  /\ assertEnabled = TRUE
  /\ phetioBrand = TRUE
  /\ InitTandem
  /\ InitObjects
  /\ InitDataStream
  /\ InitUtilities
  /\ Constructed(TRUE)
  /\ prefix = <<"p">>
  /\ last = Call("", "", 0, NoTandem)

SpecPrototype == InitPrototype /\ [][NextGroup]_vars

\* ------------------------------------------------------------- properties

Count(s, x) == Cardinality({i \in 1..Len(s) : s[i] = x})

InstancesOf(s) == [i \in 1..Len(s) |-> s[i].instance]

\* the instances of the addInstance notifications in a listener's log that were queued before launch
StaticAdds(log) ==
  InstancesOf(SelectSeq(log, LAMBDA n : n.op = "addInstance" /\ n.instance \in Range(staticOrder)))

\* how many queued entries the drain has taken so far
Delivered == Len(staticOrder) - Len(staticInstances)

\* C2: the entries added on a static tandem before launch are delivered to no listener
\* before launch, and from launch on every listener that was registered when launch began
\* has received exactly the entries delivered so far, in the order of their addInstance
\* calls; a listener registered later has received a contiguous run of them, in that order.
LaunchDeliversInOrder ==
  /\ Delivered >= 0
  /\ InstancesOf(staticInstances) = SubSeq(staticOrder, Delivered + 1, Len(staticOrder))
  /\ ~launched =>
       /\ Delivered = 0
       /\ \A l \in 1..Len(received), o \in Range(staticOrder) :
            Note("addInstance", o) \notin Range(received[l])
  /\ \A l \in 1..Len(received) :
       IF launched /\ l <= listenersAtLaunch
         THEN StaticAdds(received[l]) = SubSeq(staticOrder, 1, Delivered)
         ELSE \E a \in 1..(Delivered + 1) :
                StaticAdds(received[l]) = SubSeq(staticOrder, a, Delivered)

\* three entries were queued, launch has returned and the first listener got all three
LaunchDeliversInOrderWitness ==
  /\ launchPC = "returned"
  /\ Len(staticOrder) >= 3
  /\ listenersAtLaunch >= 1
  /\ StaticAdds(received[1]) = staticOrder

\* C3: in a build with assertions, a launch() call made after launch already began fails
\* with 'Tandem was launched twice' and changes nothing: no notification is delivered
\* and no drain begins.
SecondLaunchFails ==
  [][(last'.op = "launch" /\ launched /\ assertEnabled) =>
       /\ last'.err = "Tandem was launched twice"
       /\ UNCHANGED <<launched, launchPC, staticInstances, instanceListeners, received>>]_vars

\* a second launch failed after the first one had delivered a queued entry
SecondLaunchFailsWitness ==
  /\ last.op = "launch"
  /\ last.err = "Tandem was launched twice"
  /\ Len(staticOrder) >= 1
  /\ Len(received) >= 1
  /\ StaticAdds(received[1]) = staticOrder

\* C4: once launch began the queue holds only entries queued before launch, never a new
\* one; once launch returned the queue is empty and stays empty, and every entry that was
\* queued has been delivered exactly once to every listener registered when launch began.
QueueDrainedOnce ==
  /\ launched =>
       /\ Delivered >= 0
       /\ InstancesOf(staticInstances) = SubSeq(staticOrder, Delivered + 1, Len(staticOrder))
  /\ launchPC = "returned" =>
       /\ staticInstances = <<>>
       /\ \A l \in 1..Len(received), o \in Range(staticOrder) :
            l <= listenersAtLaunch => Count(received[l], Note("addInstance", o)) = 1

\* launch returned after draining two entries, and a static entry was added afterwards
QueueDrainedOnceWitness ==
  /\ launchPC = "returned"
  /\ Len(staticOrder) >= 2
  /\ listenersAtLaunch >= 1
  /\ staticInstances = <<>>
  /\ \E o \in Objects : /\ phetioBrand
                        /\ phetioObjectInitialized[o]
                        /\ tandem[o] = StaticTandem
                        /\ o \notin Range(staticOrder)

\* the registrations of o that are visible: its entries in the queue and in a listener's log
Registrations(l, o) ==
  Count(InstancesOf(staticInstances), o) + Count(received[l], Note("addInstance", o))

Deregistrations(l, o) == Count(received[l], Note("removeInstance", o))

\* C5: in a build with assertions, whatever initializePhetioObject and dispose calls are
\* made on a PhetioObject, it is registered at most once and deregistered at most once,
\* and a dispose() of an object already disposed fails and notifies no listener.
RegisteredAndDeregisteredOnce ==
  /\ [](assertEnabled =>
          \A l \in 1..Len(received) :
            /\ Registrations(l, LifecycleObject) <= 1
            /\ Deregistrations(l, LifecycleObject) <= 1)
  /\ [][(assertEnabled /\ last'.op = "dispose" /\ calls' # calls /\ isDisposed[LifecycleObject]) =>
          /\ last'.err # ""
          /\ UNCHANGED <<instanceListeners, received, isDisposed>>]_vars

\* a second dispose failed on an object that had been registered and deregistered once
RegisteredAndDeregisteredOnceWitness ==
  /\ assertEnabled
  /\ last.op = "dispose"
  /\ last.err # ""
  /\ Len(received) >= 1
  /\ Registrations(1, LifecycleObject) = 1
  /\ Deregistrations(1, LifecycleObject) = 1

\* the entry of o is active: it was added and is not waiting in the queue
Active(o) ==
  /\ phetioBrand
  /\ phetioObjectInitialized[o]
  /\ tandem[o].enabled
  /\ o \notin Range(InstancesOf(staticInstances))

\* C6: in the step that makes an entry active every listener registered at that moment
\* has received exactly one addInstance notification for it, and from then on no
\* listener, old or new, receives another one for that entry.
ListenersNotifiedOnce ==
  [][\A o \in Objects :
       /\ (~Active(o) /\ Active(o)') =>
            \A l \in 1..Len(instanceListeners) :
              Count(received'[l], Note("addInstance", o)) = 1
       /\ Active(o) =>
            \A l \in 1..Len(received') :
              Count(received'[l], Note("addInstance", o)) =
                IF l <= Len(received) THEN Count(received[l], Note("addInstance", o)) ELSE 0]_vars

\* an entry is active, the first listener was notified of it, the second one came later
ListenersNotifiedOnceWitness ==
  /\ Len(received) = 2
  /\ \E o \in Objects : /\ Active(o)
                        /\ Count(received[1], Note("addInstance", o)) = 1
                        /\ Count(received[2], Note("addInstance", o)) = 0

SinkCallsOf(o) ==
  LET ids == {e.id : e \in {x \in Range(dataStream.log) : x.op = "start" /\ x.object = o}}
  IN  SelectSeq(dataStream.log, LAMBDA e : e.id \in ids)

\* the ids left open after the calls of s, and whether every end closed the id opened last
RECURSIVE Replay(_, _)
Replay(s, acc) ==
  IF s = <<>> \/ ~acc.nested THEN acc
  ELSE LET e == Head(s)
           open == acc.open
       IN  Replay(Tail(s),
                  IF e.op = "start" THEN [nested |-> TRUE, open |-> Append(open, e.id)]
                  ELSE IF open # <<>> /\ open[Len(open)] = e.id
                    THEN [nested |-> TRUE, open |-> SubSeq(open, 1, Len(open) - 1)]
                  ELSE [nested |-> FALSE, open |-> open])

Emitted(frames) == SelectSeq(frames, LAMBDA f : f >= 1)

\* C8: for every PhetioObject, when every phetioStartEvent has been matched by a
\* phetioEndEvent the message stack is empty; the ids on the stack are the ids of the
\* starts still open; and the sink saw, for the ids it gave this object, properly nested
\* calls: every end closed the id opened last and not yet closed, so no id is ended twice
\* and every id no longer open was ended exactly once.
StackDiscipline ==
  \A o \in Objects :
    /\ openFrames[o] = <<>> => phetioMessageStack[o] = <<>>
    /\ Emitted(phetioMessageStack[o]) = Emitted(openFrames[o])
    /\ LET r == Replay(SinkCallsOf(o), [nested |-> TRUE, open |-> <<>>])
       IN  /\ r.nested
           /\ r.open = Emitted(phetioMessageStack[o])

\* two nested events of one object were started and ended: start a, start b, end b, end a
StackDisciplineWitness ==
  \E o \in Objects :
    /\ openFrames[o] = <<>>
    /\ phetioMessageStack[o] = <<>>
    /\ LET s == SinkCallsOf(o) IN
         /\ Len(s) = 4
         /\ s[1].op = "start" /\ s[2].op = "start" /\ s[3].op = "end" /\ s[4].op = "end"
         /\ s[3].id = s[2].id /\ s[4].id = s[1].id /\ s[1].id # s[2].id

StartCall(o) == last'.op = "phetioStartEvent" /\ last'.instance = o /\ eventCalls' # eventCalls

EndCall(o) == last'.op = "phetioEndEvent" /\ last'.instance = o /\ eventCalls' # eventCalls

SuppressedFramesSkipTheSink ==
  [][\A o \in Objects :
       LET stack == phetioMessageStack[o]
           top == stack[Len(stack)]
           front == SubSeq(stack, 1, Len(stack) - 1)
       IN  /\ (StartCall(o) /\ phetioBrand /\ phetioHighFrequency[o]
                 /\ ~phetioEmitHighFrequencyEvents) =>
                /\ phetioMessageStack'[o] = Append(stack, SKIPPING_HIGH_FREQUENCY_MESSAGE)
                /\ dataStream' = dataStream
           /\ (EndCall(o) /\ stack # <<>>) =>
                /\ phetioMessageStack'[o] = front
                /\ IF top = SKIPPING_HIGH_FREQUENCY_MESSAGE
                     THEN dataStream' = dataStream
                     ELSE dataStream'.log =
                            Append(dataStream.log, [op |-> "end", id |-> top, object |-> o])]_vars

\* an emitted frame was just popped from above a marker: the stack mixed both kinds
SuppressedFramesSkipTheSinkWitness ==
  /\ last.op = "phetioEndEvent"
  /\ phetioMessageStack[last.instance] = <<SKIPPING_HIGH_FREQUENCY_MESSAGE>>
  /\ dataStream.log # <<>>
  /\ dataStream.log[Len(dataStream.log)].op = "end"
  /\ dataStream.log[Len(dataStream.log)].object = last.instance
  /\ dataStream.log[Len(dataStream.log)].id >= 1

\* C1: no two live members of the group carry the same name, that is the same index suffix
NoDuplicateIndex ==
  \A i, j \in 1..Len(groupArray) : i # j => groupArray[i].name # groupArray[j].name

\* a member created for the peer e_1 in a fresh group, then two createNextMember calls:
\* the second one reuses index 1
DuplicateAfterCorresponding ==
  /\ last.op = "createNextMember"
  /\ prefix = <<"p">>
  /\ groupElementIndex = 2
  /\ [i \in 1..Len(groupArray) |-> groupArray[i].name] =
       <<<<"p", "_", "1">>, <<"p", "_", "0">>, <<"p", "_", "1">>>>

\* ------------------------------------------------ properties of the lifecycle

DisposeCall(o) == last'.op = "dispose" /\ last'.instance = o /\ calls' # calls

\* C11: a dispose() of an object not yet disposed completes whatever the message stack
\* holds: it returns without an error, sets isDisposed, deregisters the object when it
\* was registered, and leaves the message stack as it was; in a build with assertions it
\* leaves a check pending, and that check, when it runs on a later turn, fails exactly
\* when the stack is not empty at that turn.
DisposeIsNotBlocked ==
  [][\A o \in Objects :
       /\ (DisposeCall(o) /\ ~isDisposed[o]) =>
            /\ last'.err = ""
            /\ isDisposed'[o]
            /\ phetioMessageStack' = phetioMessageStack
            /\ assertEnabled => o \in stackChecks'
            /\ \A l \in 1..Len(instanceListeners) :
                 received'[l] = IF phetioObjectInitialized[o] /\ phetioBrand /\ tandem[o].enabled
                                  THEN Append(received[l], Note("removeInstance", o))
                                  ELSE received[l]
       /\ (last'.op = "stackCheck" /\ last'.instance = o /\ stackChecks' # stackChecks) =>
            /\ (last'.err # "") <=> (phetioMessageStack[o] # <<>>)
            /\ phetioMessageStack' = phetioMessageStack]_vars

\* an object was disposed with an event open, a listener was told of its removal, and the
\* deferred check then failed on the frame still open
DisposeIsNotBlockedWitness ==
  /\ last.op = "stackCheck"
  /\ last.err = "phetioMessageStack should be clear"
  /\ isDisposed[LifecycleObject]
  /\ phetioMessageStack[LifecycleObject] # <<>>
  /\ Len(received) >= 1
  /\ Note("removeInstance", LifecycleObject) \in Range(received[1])

\* C12: a dispose() of an object not yet disposed sets isDisposed, disposes every linked
\* element and empties the list; when the object was initialized it also deregisters it
\* from its tandem (every listener is told once, if the tandem is enabled in the phet-io
\* brand) and disposes the wrapper if there is one; when the object was never initialized
\* no listener is told. In a build with assertions a dispose() of a disposed object
\* fails and has none of these effects.
DisposeEffects ==
  [][\A o \in Objects :
       DisposeCall(o) =>
         IF isDisposed[o]
           THEN assertEnabled =>
                  /\ last'.err # ""
                  /\ UNCHANGED <<registryVars, tandem, phetioObjectInitialized, isDisposed,
                                 phetioWrapper, linkedElements, linkDisposals, stackChecks>>
           ELSE /\ last'.err = ""
                /\ isDisposed'[o]
                /\ linkDisposals'[o] = linkDisposals[o] + linkedElements[o]
                /\ linkedElements'[o] = 0
                /\ phetioWrapper'[o] = IF phetioObjectInitialized[o] /\ phetioWrapper[o] = "live"
                                         THEN "disposed" ELSE phetioWrapper[o]
                /\ \A l \in 1..Len(instanceListeners) :
                     received'[l] =
                       IF phetioObjectInitialized[o] /\ phetioBrand /\ tandem[o].enabled
                         THEN Append(received[l], Note("removeInstance", o))
                         ELSE received[l]]_vars

\* an initialized object with a wrapper and a linked element was disposed, a listener was
\* told, and a second dispose() then failed
DisposeEffectsWitness ==
  /\ assertEnabled
  /\ last.op = "dispose"
  /\ last.err # ""
  /\ phetioWrapper[LifecycleObject] = "disposed"
  /\ linkDisposals[LifecycleObject] >= 1
  /\ linkedElements[LifecycleObject] = 0
  /\ Len(received) >= 1
  /\ Deregistrations(1, LifecycleObject) = 1

InitializeCall(o) == last'.op = "initializePhetioObject" /\ last'.instance = o /\ calls' # calls

\* the fields of the PhetioObjects
ObjectFields == <<tandem, phetioObjectInitialized, isDisposed, phetioWrapper, phetioHighFrequency,
                  phetioMessageStack, linkedElements>>

\* C13: in a build with assertions, an initializePhetioObject call that names a
\* PhetioObject key on an object already initialized fails with 'cannot initialize
\* twice', registers nothing and changes no field; in every build a call that names no
\* PhetioObject key returns without an error and changes no field and registers nothing.
InitializeTwiceFails ==
  [][\A o \in Objects :
       InitializeCall(o) =>
         IF last'.tandem.isNull
           THEN last'.err = "" /\ UNCHANGED <<ObjectFields, registryVars>>
           ELSE (assertEnabled /\ phetioObjectInitialized[o]) =>
                  /\ last'.err = "cannot initialize twice"
                  /\ UNCHANGED <<ObjectFields, registryVars>>]_vars

\* a second initialization failed on an object whose one registration a listener saw
InitializeTwiceFailsWitness ==
  /\ last.op = "initializePhetioObject"
  /\ last.err = "cannot initialize twice"
  /\ phetioObjectInitialized[LifecycleObject]
  /\ Len(received) >= 1
  /\ Registrations(1, LifecycleObject) = 1

\* C14: an initialized PhetioObject owns a wrapper exactly when the phet-io brand is
\* active and its tandem was supplied, and every call the sink received was made by an
\* object for which both hold.
WrapperIffInstrumented ==
  /\ \A o \in Objects :
       phetioObjectInitialized[o] =>
         ((phetioWrapper[o] = "live") <=> (phetioBrand /\ tandem[o].supplied))
  /\ \A i \in 1..Len(dataStream.log) :
       LET o == dataStream.log[i].object
       IN  phetioBrand /\ ~tandem[o].isNull /\ tandem[o].supplied

\* in the phet-io brand, an object with a supplied tandem owns a wrapper and reached the
\* sink, an object with an unsupplied tandem owns none and started an event in silence
WrapperIffInstrumentedWitness ==
  /\ phetioBrand
  /\ \E o, p \in EventObjects :
       /\ phetioObjectInitialized[o] /\ tandem[o] = DynamicTandem /\ phetioWrapper[o] = "live"
       /\ phetioObjectInitialized[p] /\ tandem[p] = OptionalTandem /\ phetioWrapper[p] = "null"
       /\ \E i \in 1..Len(dataStream.log) : dataStream.log[i].object = o
       /\ openFrames[p] # <<>>
       /\ phetioMessageStack[p] = <<>>

GroupStep(op) == last'.op = op /\ groupCalls' # groupCalls

\* C15: clear() disposes the live members one at a time from the last created to the
\* first (each is removed, announced on memberDisposedEmitter, then disposed, with the
\* group one shorter every time), and leaves the group empty with its counter at 0.
ClearDisposesInReverse ==
  [][GroupStep("clear") =>
       LET n == Len(groupArray) IN
         /\ groupArray' = <<>>
         /\ groupElementIndex' = 0
         /\ Len(groupEmitted') = 2 * n
         /\ \A k \in 1..n :
              /\ groupEmitted'[2 * k - 1] =
                   [op |-> "memberDisposed", name |-> groupArray[n + 1 - k].name, length |-> n - k]
              /\ groupEmitted'[2 * k] =
                   [op |-> "dispose", name |-> groupArray[n + 1 - k].name, length |-> n - k]]_vars

ClearDisposesInReverseWitness ==
  /\ last.op = "clear"
  /\ groupArray = <<>>
  /\ groupElementIndex = 0
  /\ Len(groupEmitted) = 6
  /\ groupEmitted[2] = [op |-> "dispose", name |-> <<"p", "_", "2">>, length |-> 2]
  /\ groupEmitted[4] = [op |-> "dispose", name |-> <<"p", "_", "1">>, length |-> 1]
  /\ groupEmitted[6] = [op |-> "dispose", name |-> <<"p", "_", "0">>, length |-> 0]

\* C16: a group starts with counter 0; createNextMember hands the current counter to
\* createGroupMember and adds one to the counter; the member it creates is named
\* prefix + '_' + that counter and is built from the arguments of the call; the first
\* member created by createNextMember after clear() has index 0. (Counters that are numbers.)
CreateNextMemberCounts ==
  /\ groupElementIndex = 0
  /\ [][(GroupStep("createNextMember") /\ groupElementIndex # NaN) =>
          /\ groupCall'.index = groupElementIndex
          /\ groupElementIndex' = groupElementIndex + 1
          /\ last'.err = "" =>
               /\ groupArray' = Append(groupArray,
                                       [name |-> prefix \o <<"_">> \o toString(groupElementIndex),
                                        args |-> groupCall'.args])
               /\ last.op = "clear" => groupArray'[Len(groupArray')].name = prefix \o <<"_", "0">>
          /\ last'.err # "" => groupArray' = groupArray]_vars

CreateNextMemberCountsWitness ==
  /\ last.op = "createNextMember"
  /\ groupCalls = 3
  /\ groupArray = <<[name |-> <<"p", "_", "0">>, args |-> 5],
                    [name |-> <<"p", "_", "1">>, args |-> 7],
                    [name |-> <<"p", "_", "2">>, args |-> 5]>>
  /\ groupElementIndex = 3

\* C17: createCorrespondingGroupMember creates the member at the index i of its peer
\* and leaves the counter above i, whatever the counter was before the call.
CorrespondingBumpsPast ==
  [][(GroupStep("createCorrespondingGroupMember") /\ last'.err = ""
        /\ groupElementIndex # NaN /\ groupCall'.index # NaN) =>
       /\ groupArray'[Len(groupArray')].name = componentNameOf(groupCall'.index)
       /\ groupElementIndex' > groupCall'.index]_vars

\* the member at index 1 is live and the counter is still at 0
CounterLeftBehind ==
  /\ last.op = "createCorrespondingGroupMember"
  /\ last.err = ""
  /\ groupCall.name = <<"e", "_", "1">>
  /\ [i \in 1..Len(groupArray) |-> groupArray[i].name] = <<<<"p", "_", "1">>>>
  /\ groupElementIndex = 0

CreationOps == {"createNextMember", "createCorrespondingGroupMember", "createGroupMember"}

\* C18: a call that reaches createGroupMember with index i either succeeds, and then the
\* member named prefix + '_' + i is the new last element of the array and the listeners of
\* memberCreatedEmitter were called exactly once, with that member, when the array
\* already held it; or it fails, and then the array is unchanged and no listener was called.
CreationOrder ==
  [][\A op \in CreationOps : GroupStep(op) =>
       LET name == prefix \o <<"_">> \o toString(groupCall'.index) IN
         IF last'.err = ""
           THEN /\ Len(groupArray') = Len(groupArray) + 1
                /\ SubSeq(groupArray', 1, Len(groupArray)) = groupArray
                /\ groupArray'[Len(groupArray')].name = name
                /\ groupEmitted' = <<[op |-> "memberCreated", name |-> name,
                                      length |-> Len(groupArray) + 1]>>
           ELSE /\ last'.err \in Outcomes
                /\ groupArray' = groupArray
                /\ groupEmitted' = <<>>]_vars

\* a member was created, and the next creation failed validation
CreationOrderWitness ==
  /\ last.op = "createGroupMember"
  /\ last.err = "validate throws"
  /\ groupCall.index = 1
  /\ groupCalls = 2
  /\ Len(groupArray) = 1
  /\ groupArray[1].name = <<"p", "_", "0">>
  /\ groupEmitted = <<>>

CounterNeverReissues ==
  [][/\ (\E op \in CreationOps \cup {"addChildInstanceFromComponentName", "disposeGroupMember"} :
            GroupStep(op) /\ groupElementIndex # NaN /\ groupElementIndex' # NaN)
          => groupElementIndex' >= groupElementIndex
     /\ GroupStep("clear") => groupElementIndex' = 0
     /\ (GroupStep("createNextMember") /\ last'.err = "")
          => groupArray'[Len(groupArray')].name \notin groupRetired]_vars

\* createNextMember has just created a member under the name of a disposed one
DisposedIndexReissued ==
  /\ last.op = "createNextMember"
  /\ last.err = ""
  /\ groupArray # <<>>
  /\ groupArray[Len(groupArray)].name = <<"p", "_", "1">>
  /\ <<"p", "_", "1">> \in groupRetired

\* C21: in validation mode the group holds a prototype from construction on, and the
\* prototype is never a member: the group starts empty with its counter at 0 and nothing
\* notified; the prototype is never in the array, so length does not count it; no
\* notification and no disposal ever names it; and no call, clear() included, changes it.
PrototypeIsNoMember ==
  /\ memberPrototype = Prototype
  /\ groupArray = <<>>
  /\ groupElementIndex = 0
  /\ groupEmitted = <<>>
  /\ [](/\ \A i \in 1..Len(groupArray) : groupArray[i].name # memberPrototype.name
        /\ \A i \in 1..Len(groupEmitted) : groupEmitted[i].name # memberPrototype.name)
  /\ [][memberPrototype' = memberPrototype]_vars
  /\ [][(GroupStep("createNextMember") /\ last.op \in {"", "clear"} /\ last'.err = "")
          => groupArray'[Len(groupArray')].name = prefix \o <<"_", "0">>]_vars

\* clear() has disposed three members of a group in validation mode
PrototypeIsNoMemberWitness ==
  /\ memberPrototype = Prototype
  /\ last.op = "clear"
  /\ Len(groupEmitted) = 6
  /\ groupArray = <<>>

\* ------------------------------------------------- the identifier specification
\* One call of one PhetioIDUtils function, with every identifier of at most MaxLen
\* characters and up to two components of at most MaxLen - 2 characters.
ComponentLists == UNION {[1..k -> Strings(MaxLen - 2)] : k \in 0..2}

PhetioIDs == Strings(MaxLen)

\* createTandem() and createTandem( id ) with an id of fewer than MaxLen characters
ArgumentLists == {<<>>} \cup {<<id>> : id \in Strings(MaxLen - 1)}

NextIDs ==
  \/ idCall = NoIDCall /\ \E phetioID \in PhetioIDs, componentNames \in ComponentLists :
                            AppendCall(phetioID, componentNames)
  \/ idCall = NoIDCall /\ \E phetioID \in PhetioIDs : GetComponentNameCall(phetioID)
  \/ idCall = NoIDCall /\ \E phetioID \in PhetioIDs : GetParentIDCall(phetioID)
  \/ idCall = NoIDCall /\ \E phetioID \in PhetioIDs : IsDynamicElementCall(phetioID)
  \/ idCall = NoIDCall /\ \E thisId \in PhetioIDs, arguments \in ArgumentLists :
                            CreateTandemCall(thisId, arguments)

InitIDs ==
  /\ assertEnabled \in BOOLEAN
  /\ phetioBrand = TRUE
  /\ InitTandem
  /\ InitObjects
  /\ InitDataStream
  /\ InitUtilities
  /\ InitGroup
  /\ prefix = <<"p">>
  /\ last = Call("", "", 0, NoTandem)

SpecIDs == InitIDs /\ [][NextIDs]_vars

\* C22: after append( p, c ) with one component c that holds no separator, getParentID
\* of the result returns p and getComponentName of the result returns c.
AppendIsInverted ==
  (/\ idCall.op = "append"
   /\ Len(idCall.componentNames) = 1
   /\ stringIndexOf(idCall.componentNames[1], SEPARATOR) = -1)
    => /\ idCall.err = ""
       /\ getParentID(idCall.result) = IDResult("", idCall.phetioID)
       /\ getComponentName(idCall.result) = IDResult("", idCall.componentNames[1])

AppendIsInvertedWitness ==
  /\ idCall.op = "append"
  /\ idCall.phetioID = <<"a", ".", "a">>
  /\ idCall.componentNames = <<<<"a">>>>
  /\ idCall.result = <<"a", ".", "a", ".", "a">>

HasSeparator(phetioID) == \E i \in 1..Len(phetioID) : phetioID[i] = SEPARATOR

\* an id with a separator is put together again from its two parts
Rejoined(phetioID) ==
  /\ getParentID(phetioID).err = ""
  /\ getComponentName(phetioID).err = ""
  /\ append(getParentID(phetioID).result, <<getComponentName(phetioID).result>>)
       = IDResult("", phetioID)

\* C23 as stated: an id with a separator is the append of its parent id and its
\* component name; for every id without a separator getComponentName returns the id
\* and getParentID fails.
SplitAtLastSeparator ==
  /\ (idCall.op \in {"getComponentName", "getParentID"} /\ HasSeparator(idCall.phetioID))
       => Rejoined(idCall.phetioID)
  /\ (idCall.op = "getComponentName" /\ ~HasSeparator(idCall.phetioID))
       => idCall.err = "" /\ idCall.result = idCall.phetioID
  /\ (idCall.op = "getParentID" /\ ~HasSeparator(idCall.phetioID) /\ assertEnabled)
       => idCall.err # ""

\* C23: an id with a separator is the append of its parent id and its component name;
\* for a non-empty id without a separator getComponentName returns the id, for the
\* empty id it fails; getParentID fails for every id without a separator.
SplitAtLastSeparatorUnlessEmpty ==
  /\ (idCall.op \in {"getComponentName", "getParentID"} /\ HasSeparator(idCall.phetioID))
       => Rejoined(idCall.phetioID)
  /\ (idCall.op = "getComponentName" /\ ~HasSeparator(idCall.phetioID))
       => IF assertEnabled /\ idCall.phetioID = <<>>
            THEN idCall.err # ""
            ELSE idCall.err = "" /\ idCall.result = idCall.phetioID
  /\ (idCall.op = "getParentID" /\ ~HasSeparator(idCall.phetioID) /\ assertEnabled)
       => idCall.err # ""

\* getComponentName( '' ) has failed
SplitAtLastSeparatorWitness ==
  /\ assertEnabled
  /\ idCall.op = "getComponentName"
  /\ idCall.phetioID = <<>>
  /\ idCall.err # ""

\* every component preceded by one separator, in order
RECURSIVE Dotted(_)
Dotted(componentNames) ==
  IF componentNames = <<>> THEN <<>>
  ELSE <<SEPARATOR>> \o Head(componentNames) \o Dotted(Tail(componentNames))

\* C24: append fails exactly when one of its components, at whatever position, holds
\* the separator; when it does not fail it returns the id followed by every component in
\* order, each preceded by one separator.
AppendRejectsSeparators ==
  idCall.op = "append" =>
    /\ assertEnabled =>
         (idCall.err # "" <=> \E k \in 1..Len(idCall.componentNames) :
                                 HasSeparator(idCall.componentNames[k]))
    /\ idCall.err = "" => idCall.result = idCall.phetioID \o Dotted(idCall.componentNames)

\* the separator was in the second of two components
AppendRejectsSeparatorsWitness ==
  /\ assertEnabled
  /\ idCall.op = "append"
  /\ idCall.componentNames = <<<<"a">>, <<SEPARATOR>>>>
  /\ idCall.err # ""

\* C25: isDynamicElement( id ) is true exactly when the id holds the group separator
\* somewhere: it is true for a group member under the id and for a child of that
\* member, and false for 'sim.screen.model'.
DynamicIffGroupSeparator ==
  idCall.op = "isDynamicElement" =>
    /\ idCall.flag <=> \E i \in 1..Len(idCall.phetioID) : idCall.phetioID[i] = GROUP_SEPARATOR
    /\ \A index \in 0..MaxIndex :
         LET member == idCall.phetioID \o <<SEPARATOR>> \o prefix \o <<"_">> \o toString(index)
         IN  /\ isDynamicElement(member)
             /\ isDynamicElement(append(member, <<<<"a">>>>).result)
    /\ ~isDynamicElement(<<"s", "i", "m", ".", "s", "c", "r", "e", "e", "n", ".",
                           "m", "o", "d", "e", "l">>)

\* the id of a child of a dynamic element
DynamicIffGroupSeparatorWitness ==
  /\ idCall.op = "isDynamicElement"
  /\ idCall.phetioID = <<"_", ".", "a">>
  /\ idCall.flag

\* ------------------------------------------------- parametric IO type factories
\* An IO type is an object: two types are the same object when their ids are equal.
\* The types handed to the factories carry a typeName, a string of characters.
ParameterTypes == {[id |-> -1, typeName |-> <<"N">>], [id |-> -2, typeName |-> <<"S">>]}

\* Array.prototype.join( separator ) of the typeNames of a list of types
RECURSIVE join(_, _)
join(types, separator) ==
  IF types = <<>> THEN <<>>
  ELSE IF Len(types) = 1 THEN types[1].typeName
  ELSE types[1].typeName \o <<separator>> \o join(Tail(types), separator)

\* `${returnType.typeName}.${functionParameterTypes.map( type => type.typeName ).join( ',' )}`
cacheKey(returnType, functionParameterTypes) ==
  returnType.typeName \o <<".">> \o join(functionParameterTypes, ",")

\* a cache that never finds its key
hasNoProperty(factory, key) == FALSE

\* cache.hasOwnProperty( key ) of the cache of one factory
hasOwnProperty(factory, key) == \E e \in typeCache : e.factory = factory /\ e.key = key

\* `if ( !cache.hasOwnProperty( key ) ) { cache[ key ] = create( ... ); } return cache[ key ];`
\* and the unconditional `return phetioInherit( ..., Impl, ... )` of the factories without a cache
Make(factory, parameters, key, caches) ==
  /\ Len(typeLog) < MaxTypeCalls
  /\ IF caches /\ hasOwnProperty(factory, key)
       THEN /\ typeLog' = Append(typeLog,
                 [factory |-> factory, parameters |-> parameters, created |-> FALSE, err |-> "",
                  type |-> (CHOOSE e \in typeCache : e.factory = factory /\ e.key = key).type])
            /\ UNCHANGED <<typeCache, typesCreated>>
       ELSE /\ typesCreated' = typesCreated + 1
            /\ typeCache' = IF caches
                              THEN {e \in typeCache : ~(e.factory = factory /\ e.key = key)}
                                     \cup {[factory |-> factory, key |-> key,
                                            type |-> typesCreated + 1]}
                              ELSE typeCache
            /\ typeLog' = Append(typeLog,
                 [factory |-> factory, parameters |-> parameters, created |-> TRUE, err |-> "",
                  type |-> typesCreated + 1])
  /\ UNCHANGED <<buildVars, registryVars, objectVars, eventVars, groupVars, last, idCall,
                 groupTandem, ioCall, ioType>>

\* PhetioGroupIO( parameterType )
PhetioGroupIO(parameterType) ==
  Make("PhetioGroupIO", <<parameterType>>, parameterType.typeName, TRUE)

\* FunctionIO( returnType, functionParameterTypes )
FunctionIO(returnType, functionParameterTypes) ==
  Make("FunctionIO", <<returnType>> \o functionParameterTypes,
       cacheKey(returnType, functionParameterTypes), TRUE)

\* NullableIO( parameterType ), ArrayIO( elementType ), TProperty( phetioValueType )
Uncached(factory, parameterType) == Make(factory, <<parameterType>>, <<>>, FALSE)

\* TNumber( units ); defined: validUnits and RangeWithValue, which the file neither
\* declares nor requires, resolve to globals
TNumber(units, defined) ==
  IF defined
    THEN Make("TNumber", <<units>>, <<>>, FALSE)
    ELSE /\ Len(typeLog) < MaxTypeCalls
         /\ typeLog' = Append(typeLog,
              [factory |-> "TNumber", parameters |-> <<units>>, created |-> FALSE,
               err |-> "ReferenceError", type |-> 0])
         /\ UNCHANGED <<typeCache, typesCreated, buildVars, registryVars, objectVars, eventVars,
                        groupVars, last, idCall, groupTandem, ioCall, ioType>>

ParameterLists == UNION {[1..k -> ParameterTypes] : k \in 0..2}

NextTypes ==
  \/ \E parameterType \in ParameterTypes : PhetioGroupIO(parameterType)
  \/ \E returnType \in ParameterTypes, functionParameterTypes \in ParameterLists :
       FunctionIO(returnType, functionParameterTypes)
  \/ \E factory \in {"NullableIO", "ArrayIO", "TProperty"}, parameterType \in ParameterTypes :
       Uncached(factory, parameterType)
  \/ \E units \in {"volts", "meters"}, defined \in BOOLEAN : TNumber(units, defined)

SpecTypes == InitIDs /\ [][NextTypes]_vars

\* the calls of the given factories that returned a type
Returned(factories) ==
  {i \in 1..Len(typeLog) : typeLog[i].factory \in factories /\ typeLog[i].err = ""}

\* C26: over any sequence of calls, two calls of PhetioGroupIO with the same parameter
\* type, or of FunctionIO with the same return type and the same list of parameter types,
\* return the same type object, and at most one of the calls with one cache key created
\* a type.
CachedFactoriesMemoize ==
  \A i, j \in Returned({"PhetioGroupIO", "FunctionIO"}) :
    (i # j /\ typeLog[i].factory = typeLog[j].factory
           /\ typeLog[i].parameters = typeLog[j].parameters)
      => /\ typeLog[i].type = typeLog[j].type
         /\ ~(typeLog[i].created /\ typeLog[j].created)

\* the third call repeats the first, with another call between them
CachedFactoriesMemoizeWitness ==
  /\ Len(typeLog) = 3
  /\ typeLog[1].factory = "FunctionIO"
  /\ Len(typeLog[1].parameters) = 3
  /\ typeLog[2].factory = "FunctionIO"
  /\ typeLog[2].parameters # typeLog[1].parameters
  /\ typeLog[3].factory = "FunctionIO"
  /\ typeLog[3].parameters = typeLog[1].parameters
  /\ typeLog[3].type = typeLog[1].type
  /\ typeLog[2].type # typeLog[1].type

\* C27: two calls of NullableIO, ArrayIO or TProperty with the same parameter type, or
\* of TNumber with the same units, return the same type object.
EveryFactoryMemoizes ==
  \A i, j \in Returned({"NullableIO", "ArrayIO", "TProperty", "TNumber"}) :
    (typeLog[i].factory = typeLog[j].factory /\ typeLog[i].parameters = typeLog[j].parameters)
      => typeLog[i].type = typeLog[j].type

\* NullableIO was called twice with one parameter type and returned two types
NullableCreatedTwice ==
  /\ Len(typeLog) = 2
  /\ typeLog[1].factory = "NullableIO"
  /\ typeLog[2].factory = "NullableIO"
  /\ typeLog[1].parameters = typeLog[2].parameters
  /\ typeLog[1].type # typeLog[2].type

\* C28: createTandem( child ) with a non-empty child that holds no separator returns the
\* id parent.id + '.' + child, or child when the parent's id is empty; it fails when the
\* child is missing, is empty or holds the separator.
CreateTandemRejectsSeparators ==
  idCall.op = "createTandem" =>
    LET thisId == idCall.phetioID
        legal == /\ idCall.componentNames # <<>>
                 /\ Len(idCall.componentNames[1]) > 0
                 /\ ~HasSeparator(idCall.componentNames[1])
    IN  /\ legal => /\ idCall.err = ""
                    /\ idCall.result = IF Len(thisId) > 0
                                         THEN thisId \o <<SEPARATOR>> \o idCall.componentNames[1]
                                         ELSE idCall.componentNames[1]
        /\ (assertEnabled /\ ~legal) => idCall.err # ""

\* a child that holds the separator was accepted
CreateTandemAcceptsSeparator ==
  /\ assertEnabled
  /\ idCall.op = "createTandem"
  /\ idCall.phetioID = <<"a">>
  /\ idCall.componentNames = <<<<"a", SEPARATOR>>>>
  /\ idCall.err = ""
  /\ idCall.result = <<"a", SEPARATOR, "a", SEPARATOR>>

\* ------------------------------------------------ the group tandem specification
\* One GroupTandem with any id of at most MaxLen characters, and its createNextTandem calls.
InitGroupTandem ==
  /\ InitBuild
  /\ InitTandem
  /\ InitObjects
  /\ InitDataStream
  /\ InitGroup
  /\ prefix = <<"p">>
  /\ last = Call("", "", 0, NoTandem)
  /\ idCall = NoIDCall
  /\ typeCache = {}
  /\ typesCreated = 0
  /\ typeLog = <<>>
  /\ \E id \in PhetioIDs : groupTandem = GroupTandem(id)
  /\ ioCall = NoIOCall
  /\ ioType = NoIOType

SpecGroupTandem == InitGroupTandem /\ [][CreateNextTandem]_vars

\* C29: the k-th createNextTandem call on a group tandem (k = 0, 1, 2, ...) returns the
\* id group.id + '_' + k, the counter is the number of calls made, and the ids returned
\* are pairwise distinct.
NextTandemsAreDistinct ==
  /\ groupTandem.groupElementIndex = Len(groupTandem.returned)
  /\ \A k \in 1..Len(groupTandem.returned) :
       groupTandem.returned[k] = groupTandem.id \o <<GROUP_SEPARATOR>> \o toString(k - 1)
  /\ \A j, k \in 1..Len(groupTandem.returned) :
       j # k => groupTandem.returned[j] # groupTandem.returned[k]

NextTandemsAreDistinctWitness ==
  /\ groupTandem.id = <<"a", ".", "a">>
  /\ groupTandem.returned = <<<<"a", ".", "a", "_", "0">>, <<"a", ".", "a", "_", "1">>,
                              <<"a", ".", "a", "_", "2">>>>

\* ------------------------------------------------ the round trip specification
\* One round trip through NullableIO( T ) or ArrayIO( T ), for every parameter type T
\* that round-trips, every value of T and null, and every array of at most MaxLen values.
Arrays == UNION {[1..k -> Values] : k \in 0..MaxLen}

InitRoundTrip ==
  /\ InitBuild
  /\ InitTandem
  /\ InitObjects
  /\ InitDataStream
  /\ InitGroup
  /\ prefix = <<"p">>
  /\ last = Call("", "", 0, NoTandem)
  /\ idCall = NoIDCall
  /\ typeCache = {}
  /\ typesCreated = 0
  /\ typeLog = <<>>
  /\ groupTandem = GroupTandem(<<>>)
  /\ ioType = NoIOType
  /\ \E type \in RoundTripTypes : ioCall = [NoIOCall EXCEPT !.type = type]

NextRoundTrip ==
  \/ ioCall.op = "" /\ \E instance \in Values \cup {null} : NullableRoundTrip(instance)
  \/ ioCall.op = "" /\ \E array \in Arrays : ArrayRoundTrip(array)

SpecRoundTrip == InitRoundTrip /\ [][NextRoundTrip]_vars

InitDefinition ==
  /\ InitBuild
  /\ InitTandem
  /\ InitObjects
  /\ InitDataStream
  /\ InitGroup
  /\ prefix = <<"p">>
  /\ last = Call("", "", 0, NoTandem)
  /\ idCall = NoIDCall
  /\ typeCache = {}
  /\ typesCreated = 0
  /\ typeLog = <<>>
  /\ groupTandem = GroupTandem(<<>>)
  /\ ioCall = NoIOCall
  /\ \E method \in Methods : ioType = [NoIOType EXCEPT !.method = method]

NextDefinition ==
  \/ DefineType
  \/ NewPhetioObject
  \/ InvokeMethod

SpecDefinition == InitDefinition /\ [][NextDefinition]_vars

NextLazy ==
  \/ \E t \in {DynamicTandem, OptionalTandem}, hf \in BOOLEAN :
       calls[LifecycleObject] = 0 /\ InitializePhetioObject(LifecycleObject, t, TRUE, hf)
  \/ \E data \in {"object", "function"} : phetioStartEvent(LifecycleObject, data)
  \/ phetioEndEvent(LifecycleObject)
  \/ SetEmitHighFrequencyEvents

SpecLazy == InitRegistry /\ [][NextLazy]_vars

\* C32: a phetioStartEvent whose data is a function invokes it exactly once when the
\* call hands the event to the sink, and never when the call does not: when the event is
\* skipped as high frequency, when the object is not instrumented, when the call fails.
\* Data that is no function is never invoked.
DataIsLazy ==
  [][StartCall(LifecycleObject) =>
       lastData'.invoked = IF lastData'.data = "function" /\ dataStream'.log # dataStream.log
                             THEN 1 ELSE 0]_vars

\* a skipped high frequency event with a function for data, after one that was sent
DataIsLazyWitness ==
  /\ lastData = Data("function", 0)
  /\ last.op = "phetioStartEvent"
  /\ Len(phetioMessageStack[LifecycleObject]) = 2
  /\ phetioMessageStack[LifecycleObject][2] = SKIPPING_HIGH_FREQUENCY_MESSAGE
  /\ phetioMessageStack[LifecycleObject][1] > 0

NextDerived ==
  \/ AddInstanceListener
  \/ Launch
  \/ LaunchDrain
  \/ \E t \in {StaticTandem, DynamicTandem, DisabledTandem}, derivation \in Derivations,
        o \in EventObjects : DerivedAddInstance(t, derivation, o)
  \/ \E o \in EventObjects :
       /\ last.instance = o
       /\ last.op \in Derivations
       /\ DerivedRemoveInstance(last.tandem, last.op, o)

SpecDerived == InitRegistry /\ [][NextDerived]_vars

\* C34: addInstance and removeInstance on a tandem obtained from createSupertypeTandem
\* return without an error, notify no listener and leave the queue of static entries as
\* it is, whatever the tandem it was obtained from, before and after launch().
SupertypeTandemIsSilent ==
  [][(/\ calls' # calls
      /\ last'.op \in {"createSupertypeTandem", "createSupertypeTandem.removeInstance"}) =>
       /\ last'.err = ""
       /\ UNCHANGED <<instanceListeners, received, staticInstances>>]_vars

\* in the phet-io brand, after launch(), with a listener registered, an instance was
\* deregistered from the supertype tandem of a dynamic tandem; the listener heard nothing
SupertypeTandemIsSilentWitness ==
  /\ phetioBrand
  /\ launched
  /\ Len(received) = 1
  /\ received[1] = <<>>
  /\ last = Call("createSupertypeTandem.removeInstance", "", 1, DynamicTandem)

\* the step is a registration with a tandem made by one of `derivations`
DerivedBy(derivations) == calls' # calls /\ last'.op \in derivations

\* what C37 says of a registration with a tandem derived from last'.tandem
InheritsFlags ==
  LET t == last'.tandem
      d == derive(t, last'.op).tandem
  IN  /\ d.static = t.static
      /\ d.enabled = t.enabled
      /\ ~t.enabled => received' = received
      /\ (phetioBrand /\ t.enabled /\ t.static /\ ~launched) =>
           /\ received' = received
           /\ staticInstances' = Append(staticInstances, [tandem |-> d, instance |-> last'.instance])

\* C37: a tandem derived from a static tandem is static and one derived from a disabled
\* tandem is disabled, for createTandem without options, parentTandem, createGroupTandem
\* and createNextTandem: a registration with a tandem derived from a disabled tandem
\* notifies no listener, one with a tandem derived from a static tandem is queued until
\* launch().
DerivedTandemsInherit ==
  [][DerivedBy({"createTandem", "parentTandem", "createGroupTandem", "createNextTandem"}) =>
       InheritsFlags]_vars

\* an instance registered with the group tandem made from a disabled tandem was
\* announced to the listener
GroupTandemOfDisabledNotifies ==
  /\ phetioBrand
  /\ last = Call("createGroupTandem", "", 1, DisabledTandem)
  /\ Len(received) >= 1
  /\ Note("addInstance", 1) \in Range(received[1])

NotificationsOrdered ==
  \A l \in 1..Len(received), o \in Objects :
    calls[o] <= 2 =>
      \A i \in 1..Len(received[l]) :
        received[l][i] = Note("removeInstance", o) =>
          /\ \E j \in 1..(i - 1) : received[l][j] = Note("addInstance", o)
          /\ \A j \in (i + 1)..Len(received[l]) : received[l][j] # Note("addInstance", o)

\* a listener registered before anything else heard removeInstance and then, from the
\* drain of launch(), addInstance for an object with a static tandem that was initialized
\* once and disposed before launch()
DisposedEntryDelivered ==
  /\ calls[LifecycleObject] = 2
  /\ isDisposed[LifecycleObject]
  /\ tandem[LifecycleObject] = StaticTandem
  /\ launchPC = "returned"
  /\ Len(received) >= 1
  /\ received[1] = <<Note("removeInstance", LifecycleObject), Note("addInstance", LifecycleObject)>>

\* ------------------------------------------ the shared type name specification
\* ArrayIO( N ) and ArrayIO( S ): two types, two objects, both named 'ArrayIO' by
\* `phetioInherit( ObjectIO, 'ArrayIO', ArrayIOImpl, ... )`; handed to the cached factories.
ArrayTypes == {[id |-> -3, typeName |-> <<"A">>], [id |-> -4, typeName |-> <<"A">>]}

NextSharedNames ==
  \/ \E parameterType \in ArrayTypes : PhetioGroupIO(parameterType)
  \/ \E returnType \in ArrayTypes, functionParameterTypes \in {<<>>} \cup {<<t>> : t \in ArrayTypes} :
       FunctionIO(returnType, functionParameterTypes)

SpecSharedNames == InitIDs /\ [][NextSharedNames]_vars

\* C38: the type a call of PhetioGroupIO or FunctionIO returns was created by that
\* factory from the very parameters of the call: parameterType is the type handed in,
\* returnType and functionParameterTypes are the ones handed in, also when two of the
\* types handed in are different objects with one typeName.
TypeBuiltFromItsParameters ==
  \A i \in Returned({"PhetioGroupIO", "FunctionIO"}) :
    \E c \in 1..Len(typeLog) :
      /\ typeLog[c].created
      /\ typeLog[c].factory = typeLog[i].factory
      /\ typeLog[c].type = typeLog[i].type
      /\ typeLog[c].parameters = typeLog[i].parameters

\* PhetioGroupIO of one array type, then PhetioGroupIO of the other one: the second call
\* created nothing and returned the type of the first
GroupTypeOfOtherArray ==
  /\ Len(typeLog) = 2
  /\ typeLog[1].factory = "PhetioGroupIO" /\ typeLog[2].factory = "PhetioGroupIO"
  /\ typeLog[1].parameters[1].id = -3
  /\ typeLog[2].parameters[1].id = -4
  /\ typeLog[1].created /\ ~typeLog[2].created
  /\ typeLog[2].type = typeLog[1].type

\* C39: the index decoded from a component name is the index createGroupMember encoded
\* in it: for every member of the group, named prefix + '_' + i, and for every component
\* name prefix + '_' + i handed to addChildInstanceFromComponentName, the second
\* '_'-separated field parsed as an integer is i, whatever the prefix.
IndexRoundTrips ==
  \A i \in 0..MaxIndex :
    /\ \A k \in 1..Len(groupArray) :
         groupArray[k].name = componentNameOf(i) => indexOf(groupArray[k].name) = i
    /\ (last.op = "addChildInstanceFromComponentName" /\ groupCall.name = componentNameOf(i))
         => groupCall.index = i

\* in a group with the prefix p_q the component name p_q_0 of a snapshot was decoded as
\* NaN: the member was created as p_q_NaN and the counter is NaN
IndexDecodedAsNaN ==
  /\ prefix = <<"p", "_", "q">>
  /\ last = Call("addChildInstanceFromComponentName", "", 0, NoTandem)
  /\ groupCall.name = <<"p", "_", "q", "_", "0">>
  /\ groupCall.index = NaN
  /\ [k \in 1..Len(groupArray) |-> groupArray[k].name] = <<<<"p", "_", "q", "_", "N", "a", "N">>>>
  /\ groupElementIndex = NaN

\* C40: a createNextMember or createCorrespondingGroupMember that fails, because the
\* creation function throws or the member fails validation, leaves the array and the
\* counter of the group as they were before the call.
FailureLeavesGroupUnchanged ==
  [][((GroupStep("createNextMember") \/ GroupStep("createCorrespondingGroupMember"))
        /\ last'.err # "") =>
       UNCHANGED <<groupArray, groupElementIndex>>]_vars

\* the first createNextMember of a group failed: no member, and the counter is at 1
FailedCreationCounted ==
  /\ groupCalls = 1
  /\ last.op = "createNextMember"
  /\ last.err # ""
  /\ groupArray = <<>>
  /\ groupElementIndex = 1

====
